---- MODULE Spec2Model ----
(***************************************************************************)
(* Model of the ScrapeNinja crawler engine: processCrawlerQueue with its   *)
(* concurrent worker loops, the crawler_runs / crawler_queue tables it     *)
(* reads and writes, and the CrawlerQueue task wrapper.                    *)
(*                                                                         *)
(* Granularity: JavaScript runs to completion between two awaits, and      *)
(* every database statement (or READ COMMITTED transaction whose           *)
(* statements touch the same rows) takes effect at one instant.  Every     *)
(* action below is one such instant together with the synchronous code     *)
(* that follows it up to the next request.  Log writes (logToCrawler) and  *)
(* the response_html / page_title columns are not part of the state.       *)
(***************************************************************************)
EXTENDS Integers, Sequences, FiniteSets, TLC

\* ------------------------------------------------------------------ bounds
MaxConcurrency == 2
MaxPagesBound == 3
MaxDepthBound == 2
MaxPatterns == 2
\* The longest run of plain characters in a text node of the inputs.
MaxFill == 104
MaxTasks == 3
MaxRows == 3
LinkPages == 30
\* The most elements under body in the pages of the selector step.
MaxElems == 4
\* The longest text node of the pages of the cleanup operation.
MaxCleanLen == 3
\* The largest length limit given to the cleanup operation, and one that
\* only a whole page exceeds.
MaxLimit == 2
PageLimit == 40
\* The longest text node of the inputs of the whitespace stage.
MaxWsLen == 4
\* The most attributes of an element of the inputs.
MaxAttrs == 5

\* ------------------------------------------------------- program constants
\* `failedCount.count > 10`
FailThreshold == 10
\* `concurrency: number = 1`
DefaultConcurrency == 1
\* const maxLength = 100 in trimText.
maxLength == 100
\* `commentText.length > 30`
MaxCommentLength == 30
\* `href.length > 30`
MaxHrefLength == 30
\* `trimUrl(attrValue, 70)` for class and id, `trimUrl(attrValue, 30)` for the
\* other attributes.
ImportantAttrLength == 70
OtherAttrLength == 30
\* `Math.min(attrKeys.length, 4)`
MaxShownAttrs == 4

\* ------------------------------------------------------------ the web site
\* Urls are numbers.  The crawled site is a fan: the start page links to
\* FanOut pages, each of which links back to the start page and to one
\* common deeper page.
StartUrl == 0
NoUrl == 0 - 1
FanOut == FailThreshold + 3
Deep == FanOut + 1

\* A second site, a small tree with branches of different length: its start
\* page links to two pages, the first of which heads a chain of two further
\* pages while the second links to a single leaf.
TreeStart == Deep + 1
Urls == 0 .. (TreeStart + 5)

\* includedLinks of the page fetched for url u: the hrefs that survive
\* normalizeUrl, shouldProcessUrl and the hostname test.
Links(u) ==
    IF u = StartUrl THEN 1 .. FanOut
    ELSE IF u \in 1 .. FanOut THEN {StartUrl, Deep}
    ELSE IF u = TreeStart THEN {TreeStart + 1, TreeStart + 2}
    ELSE IF u = TreeStart + 1 THEN {TreeStart + 3}
    ELSE IF u = TreeStart + 2 THEN {TreeStart + 5}
    ELSE IF u = TreeStart + 3 THEN {TreeStart + 4}
    ELSE {}

\* The sets of urls whose fetch (helpers.httpRequest) throws: none, the start
\* page, one fan page; or enough fan pages to pass the failure threshold twice.
FewFail == {{}, {StartUrl}, {1}}
ManyFail == 1 .. (FailThreshold + 2)

\* Processor slots: Spec starts up to MaxConcurrency of them, SpecWide one more.
Workers == 1 .. (MaxConcurrency + 1)

\* ------------------------------------------------------------------- state
VARIABLES
    run_status,      \* crawler_runs.status of the run
    queue,           \* crawler_queue rows of the run, in id (creation) order
    maxDepth,        \* processCrawlerQueue arguments
    maxPages,
    concurrency,
    failing,         \* environment: urls whose fetch fails
    processedPages,  \* locals of processCrawlerQueue shared by the workers
    isProcessing,
    stopped,         \* CrawlerQueue.stopped
    activePromises,  \* CrawlerQueue.activePromises, by worker
    main,            \* processCrawlerQueue itself: [pc, waitFor, error]
    w_pc,            \* per worker: position in the processor loop
    w_item,          \* per worker: id of queueItem (0: none)
    w_existing,      \* per worker: existingUrls read in the enqueue transaction
    run_concurrency, \* crawler_runs.concurrency: the 'Concurrent Requests' parameter
    run_max_depth,   \* crawler_runs.max_depth: the 'Max Depth' of crawler-start
    run_crawl_external,   \* crawler_runs.crawl_external, include_patterns and
    run_include_patterns, \* exclude_patterns: the crawlExternal, includePatterns
    run_exclude_patterns, \* and excludePatterns arguments of processCrawlerQueue
    w_sawStop,       \* history: processors that found the run not 'running'
    pause,           \* history of crawler-pause: [applied, pending]
    call             \* the call of a pure function under examination

vars == <<run_status, queue, maxDepth, maxPages, concurrency, failing,
          processedPages, isProcessing, stopped, activePromises, main,
          w_pc, w_item, w_existing, run_concurrency, run_max_depth, run_crawl_external,
                   run_include_patterns, run_exclude_patterns, w_sawStop, pause, call>>

NoError == "null"

Ids == 1 .. Len(queue)

\* ------------------------------------------------------------- SQL helpers
\* COUNT(*) FILTER (WHERE status = s)
CountStatus(q, s) == Cardinality({i \in 1 .. Len(q) : q[i].status = s})

\* Mutant of PendingIds: the claim query without its status filter on
\* items already handed out.
PendingOrProcessingIds(q) ==
    {i \in 1 .. Len(q) : q[i].status \in {"pending", "processing"}}

\* WHERE run_id = $1 AND status = 'pending'
PendingIds(q) == {i \in 1 .. Len(q) : q[i].status = "pending"}

\* ORDER BY depth ASC, created_at ASC LIMIT 1 (ids grow with created_at)
FirstByDepth(q, ids) ==
    CHOOSE i \in ids : \A j \in ids :
        \/ q[i].depth < q[j].depth
        \/ (q[i].depth = q[j].depth /\ i <= j)

\* UPDATE crawler_queue SET status = 'canceled', error = $1
\*   WHERE run_id = $2 AND status IN ('pending', 'processing')
CancelItems(q, reason) ==
    [i \in 1 .. Len(q) |->
        IF q[i].status \in {"pending", "processing"}
        THEN [q[i] EXCEPT !.status = "canceled", !.error = reason]
        ELSE q[i]]

\* UPDATE crawler_queue SET status = $1 [, error = $2] WHERE id = $3
SetItem(q, id, st, err) ==
    [q EXCEPT ![id] = [@ EXCEPT !.status = st, !.error = err]]

\* Ascending enumeration of a finite set of urls (Set iteration order).
SetToSeq(S) ==
    [k \in 1 .. Cardinality(S) |->
        CHOOSE x \in S : Cardinality({y \in S : y < x}) = k - 1]

\* Mutant of NewRows: children inserted at their parent's depth.
NewRowsSameDepth(links, parent) ==
    LET s == SetToSeq(links)
    IN [k \in 1 .. Len(s) |->
          [url |-> s[k], status |-> "pending", parent_url |-> parent.url,
           depth |-> parent.depth, error |-> NoError]]

\* values = newLinks.map(link => ({run_id, url, status: 'pending', parent_url, depth + 1}))
NewRows(links, parent) ==
    LET s == SetToSeq(links)
    IN [k \in 1 .. Len(s) |->
          [url |-> s[k], status |-> "pending", parent_url |-> parent.url,
           depth |-> parent.depth + 1, error |-> NoError]]

\* ---------------------------------------------------------------- initial
\* No pure function is being examined.
NoCall == [fn |-> "none"]

\* The state in which processCrawlerQueue starts its processors for a fresh
\* run: the run row was inserted with status 'running' and the seed row with
\* status 'pending', parent_url null, depth 0.
StartRun(seed, depths, pages, concurrencies, failSets, externals, includes, excludes) ==
    /\ run_status = "running"
    /\ queue = << [url |-> seed, status |-> "pending", parent_url |-> NoUrl,
                   depth |-> 0, error |-> NoError] >>
    /\ maxDepth \in depths
    /\ run_max_depth = maxDepth
    /\ maxPages \in pages
    /\ concurrency \in concurrencies
    /\ failing \in failSets
    /\ processedPages = 0
    /\ isProcessing = TRUE
    /\ stopped = FALSE
    /\ activePromises = {}
    /\ main = [pc |-> "awaitAll", waitFor |-> {}, error |-> NoError]
    /\ w_pc = [w \in Workers |-> IF w <= concurrency THEN "loop" ELSE "unused"]
    /\ w_item = [w \in Workers |-> 0]
    /\ w_existing = [w \in Workers |-> {}]
    /\ w_sawStop = {}
    /\ pause = [applied |-> FALSE, pending |-> {}]
    /\ call = NoCall
    /\ run_crawl_external \in externals
    /\ run_include_patterns \in includes
    /\ run_exclude_patterns \in excludes

\* The same for a run with no patterns and crawl_external off.
StartAt(seed, depths, pages, concurrencies, failSets) ==
    StartRun(seed, depths, pages, concurrencies, failSets,
             {FALSE}, {<<>>}, {<<>>})

\* processCrawlerQueue called on the fan site with the run's configured
\* concurrency.
Start(concurrencies, failSets) ==
    /\ StartAt(StartUrl, 1 .. MaxDepthBound, 1 .. MaxPagesBound,
               concurrencies, failSets)
    /\ run_concurrency = concurrency

\* Up to MaxConcurrency processors where few fetches fail, one processor
\* where many do.
Init == Start(1 .. MaxConcurrency, FewFail) \/ Start({1}, {ManyFail})

\* One processor more than MaxConcurrency, where many fetches fail.
InitWide == Start({MaxConcurrency + 1}, {ManyFail})


\* ----------------------------------------------------- CrawlerQueue.add
\* The promise returned by queue.add settles: activePromises.delete(promise)
\* runs and whoever awaits the promise continues.  A fulfilled task sends the
\* processor back to its while test.  queue.stop() awaits
\* Promise.all(activePromises): it resolves when the last awaited task has
\* fulfilled.
TaskFulfilled(w) ==
    /\ activePromises' = activePromises \ {w}
    /\ w_pc' = [w_pc EXCEPT ![w] = "loop"]
    /\ w_item' = [w_item EXCEPT ![w] = 0]
    /\ w_existing' = [w_existing EXCEPT ![w] = {}]
    /\ main' = IF main.pc = "stopping" /\ w \in main.waitFor
               THEN [main EXCEPT !.waitFor = @ \ {w},
                                 !.pc = IF main.waitFor \ {w} = {}
                                        THEN "catchCancel" ELSE "stopping"]
               ELSE main

\* A rejected task rejects its processor.  The first rejection rejects
\* `await Promise.all(processors)`: the catch block sets isProcessing = false
\* and calls queue.stop(), which sets stopped and awaits the tasks active at
\* that moment.  A rejection of one of those awaited tasks rejects
\* queue.stop() at once, the catch block is left with that error, and the
\* finally block starts.
TaskRejected(w, msg) ==
    /\ activePromises' = activePromises \ {w}
    /\ w_pc' = [w_pc EXCEPT ![w] = "rejected"]
    /\ w_item' = [w_item EXCEPT ![w] = 0]
    /\ w_existing' = [w_existing EXCEPT ![w] = {}]
    /\ IF main.pc = "awaitAll"
       THEN /\ isProcessing' = FALSE
            /\ stopped' = TRUE
            /\ main' = [pc |-> IF activePromises \ {w} = {}
                               THEN "catchCancel" ELSE "stopping",
                        waitFor |-> activePromises \ {w},
                        error |-> msg]
       ELSE /\ UNCHANGED <<isProcessing, stopped>>
            /\ main' = IF main.pc = "stopping" /\ w \in main.waitFor
                       THEN [pc |-> "finallyCount", waitFor |-> {}, error |-> msg]
                       ELSE main

\* ------------------------------------------------------------ processors
\* while (isProcessing && processedPages < maxPages)
LoopTest(w) ==
    /\ w_pc[w] = "loop"
    /\ w_pc' = [w_pc EXCEPT ![w] =
                  IF isProcessing /\ processedPages < maxPages
                  THEN "claim" ELSE "exited"]
    /\ UNCHANGED <<run_status, queue, maxDepth, maxPages, concurrency, failing,
                   run_concurrency, run_max_depth, run_crawl_external,
                   run_include_patterns, run_exclude_patterns, w_sawStop, pause, call,
                   processedPages, isProcessing, stopped, activePromises, main,
                   w_item, w_existing>>

\* Mutant of ClaimNext: failed items are handed out again.
ClaimNextRetry(w) ==
    /\ w_pc[w] = "claim"
    /\ IF PendingIds(queue) \cup {i \in Ids : queue[i].status = "failed"} = {}
       THEN /\ w_pc' = [w_pc EXCEPT ![w] = "noItem"]
            /\ UNCHANGED <<queue, w_item>>
       ELSE LET id == FirstByDepth(queue, PendingIds(queue) \cup {i \in Ids : queue[i].status = "failed"})
            IN /\ queue' = SetItem(queue, id, "processing", queue[id].error)
               /\ w_item' = [w_item EXCEPT ![w] = id]
               /\ w_pc' = [w_pc EXCEPT ![w] = "claimed"]
    /\ UNCHANGED <<run_status, maxDepth, maxPages, concurrency, failing,
                   run_concurrency, run_max_depth, run_crawl_external,
                   run_include_patterns, run_exclude_patterns, w_sawStop, pause, call,
                   processedPages, isProcessing, stopped, activePromises, main,
                   w_existing>>

\* The claim transaction: UPDATE ... WHERE id = (SELECT ... FOR UPDATE SKIP
\* LOCKED LIMIT 1) RETURNING *.
ClaimNext(w) ==
    /\ w_pc[w] = "claim"
    /\ IF PendingIds(queue) = {}
       THEN /\ w_pc' = [w_pc EXCEPT ![w] = "noItem"]
            /\ UNCHANGED <<queue, w_item>>
       ELSE LET id == FirstByDepth(queue, PendingIds(queue))
            IN /\ queue' = SetItem(queue, id, "processing", queue[id].error)
               /\ w_item' = [w_item EXCEPT ![w] = id]
               /\ w_pc' = [w_pc EXCEPT ![w] = "claimed"]
    /\ UNCHANGED <<run_status, maxDepth, maxPages, concurrency, failing,
                   run_concurrency, run_max_depth, run_crawl_external,
                   run_include_patterns, run_exclude_patterns, w_sawStop, pause, call,
                   processedPages, isProcessing, stopped, activePromises, main,
                   w_existing>>

\* if (!queueItem): the stats query; with no pending item the processor
\* stops the crawl, otherwise it sleeps and retries.
NoItemStats(w) ==
    /\ w_pc[w] = "noItem"
    /\ IF CountStatus(queue, "pending") = 0
       THEN /\ isProcessing' = FALSE
            /\ w_pc' = [w_pc EXCEPT ![w] =
                          IF CountStatus(queue, "completed") = 0
                          THEN "markRunFailed" ELSE "exited"]
       ELSE /\ w_pc' = [w_pc EXCEPT ![w] = "loop"]
            /\ UNCHANGED isProcessing
    /\ UNCHANGED <<run_status, queue, maxDepth, maxPages, concurrency, failing,
                   run_concurrency, run_max_depth, run_crawl_external,
                   run_include_patterns, run_exclude_patterns, w_sawStop, pause, call,
                   processedPages, stopped, activePromises, main,
                   w_item, w_existing>>

\* UPDATE crawler_runs SET status = 'failed'; break
MarkRunFailed(w) ==
    /\ w_pc[w] = "markRunFailed"
    /\ run_status' = "failed"
    /\ w_pc' = [w_pc EXCEPT ![w] = "exited"]
    /\ UNCHANGED <<queue, maxDepth, maxPages, concurrency, failing,
                   run_concurrency, run_max_depth, run_crawl_external,
                   run_include_patterns, run_exclude_patterns, w_sawStop, pause, call,
                   processedPages, isProcessing, stopped, activePromises, main,
                   w_item, w_existing>>

\* await queue.add(task): a stopped queue returns without running the task.
QueueAdd(w) ==
    /\ w_pc[w] = "claimed"
    /\ IF stopped
       THEN /\ w_pc' = [w_pc EXCEPT ![w] = "loop"]
            /\ w_item' = [w_item EXCEPT ![w] = 0]
            /\ UNCHANGED activePromises
       ELSE /\ activePromises' = activePromises \cup {w}
            /\ w_pc' = [w_pc EXCEPT ![w] = "checkRun"]
            /\ UNCHANGED w_item
    /\ UNCHANGED <<run_status, queue, maxDepth, maxPages, concurrency, failing,
                   run_concurrency, run_max_depth, run_crawl_external,
                   run_include_patterns, run_exclude_patterns, w_sawStop, pause, call,
                   processedPages, isProcessing, stopped, main, w_existing>>

\* Mutant of CheckRunStatus: the task goes on to fetch unless the run is paused.
CheckRunStatusIgnored(w) ==
    /\ w_pc[w] = "checkRun"
    /\ IF run_status = "paused"
       THEN /\ TaskFulfilled(w)
            /\ w_sawStop' = w_sawStop \cup {w}
       ELSE /\ w_pc' = [w_pc EXCEPT ![w] = "fetch"]
            /\ UNCHANGED <<activePromises, main, w_item, w_existing, w_sawStop>>
    /\ UNCHANGED <<run_status, queue, maxDepth, maxPages, concurrency, failing,
                   run_concurrency, run_max_depth, run_crawl_external,
                   run_include_patterns, run_exclude_patterns, pause, call,
                   processedPages, isProcessing, stopped>>

\* SELECT status FROM crawler_runs; a run that is not 'running' ends the task.
CheckRunStatus(w) ==
    /\ w_pc[w] = "checkRun"
    /\ IF run_status # "running"
       THEN /\ TaskFulfilled(w)
            /\ w_sawStop' = w_sawStop \cup {w}
       ELSE /\ w_pc' = [w_pc EXCEPT ![w] = "fetch"]
            /\ UNCHANGED <<activePromises, main, w_item, w_existing, w_sawStop>>
    /\ UNCHANGED <<run_status, queue, maxDepth, maxPages, concurrency, failing,
                   run_concurrency, run_max_depth, run_crawl_external,
                   run_include_patterns, run_exclude_patterns, pause, call,
                   processedPages, isProcessing, stopped>>

\* helpers.httpRequest returns or throws; on success the links are extracted
\* and the response columns stored, and links are enqueued only
\* if (queueItem.depth < maxDepth).
Fetch(w) ==
    /\ w_pc[w] = "fetch"
    /\ w_pc' = [w_pc EXCEPT ![w] =
                  IF queue[w_item[w]].url \in failing THEN "markFailed"
                  ELSE IF queue[w_item[w]].depth < maxDepth THEN "selectExisting"
                  ELSE "markCompleted"]
    /\ UNCHANGED <<run_status, queue, maxDepth, maxPages, concurrency, failing,
                   run_concurrency, run_max_depth, run_crawl_external,
                   run_include_patterns, run_exclude_patterns, w_sawStop, pause, call,
                   processedPages, isProcessing, stopped, activePromises, main,
                   w_item, w_existing>>

\* Enqueue transaction, first statement: SELECT url FROM crawler_queue.
SelectExisting(w) ==
    /\ w_pc[w] = "selectExisting"
    /\ w_existing' = [w_existing EXCEPT ![w] = {queue[i].url : i \in Ids}]
    /\ w_pc' = [w_pc EXCEPT ![w] = "insertLinks"]
    /\ UNCHANGED <<run_status, queue, maxDepth, maxPages, concurrency, failing,
                   run_concurrency, run_max_depth, run_crawl_external,
                   run_include_patterns, run_exclude_patterns, w_sawStop, pause, call,
                   processedPages, isProcessing, stopped, activePromises, main,
                   w_item>>

\* Enqueue transaction, second statement: INSERT of the links that were not
\* among existingUrls.
InsertLinks(w) ==
    /\ w_pc[w] = "insertLinks"
    /\ queue' = queue \o NewRows(Links(queue[w_item[w]].url) \ w_existing[w],
                                 queue[w_item[w]])
    /\ w_existing' = [w_existing EXCEPT ![w] = {}]
    /\ w_pc' = [w_pc EXCEPT ![w] = "markCompleted"]
    /\ UNCHANGED <<run_status, maxDepth, maxPages, concurrency, failing,
                   run_concurrency, run_max_depth, run_crawl_external,
                   run_include_patterns, run_exclude_patterns, w_sawStop, pause, call,
                   processedPages, isProcessing, stopped, activePromises, main,
                   w_item>>

\* UPDATE crawler_queue SET status = 'completed' WHERE id = $2
MarkCompleted(w) ==
    /\ w_pc[w] = "markCompleted"
    /\ queue' = SetItem(queue, w_item[w], "completed", queue[w_item[w]].error)
    /\ w_pc' = [w_pc EXCEPT ![w] = "countPage"]
    /\ UNCHANGED <<run_status, maxDepth, maxPages, concurrency, failing,
                   run_concurrency, run_max_depth, run_crawl_external,
                   run_include_patterns, run_exclude_patterns, w_sawStop, pause, call,
                   processedPages, isProcessing, stopped, activePromises, main,
                   w_item, w_existing>>

\* After the stats query: processedPages++ and the maxPages test.
CountPage(w) ==
    /\ w_pc[w] = "countPage"
    /\ processedPages' = processedPages + 1
    /\ IF processedPages + 1 >= maxPages
       THEN /\ isProcessing' = FALSE
            /\ w_pc' = [w_pc EXCEPT ![w] = "cancelMaxPages"]
            /\ UNCHANGED <<activePromises, main, w_item, w_existing>>
       ELSE /\ TaskFulfilled(w)
            /\ UNCHANGED isProcessing
    /\ UNCHANGED <<run_status, queue, maxDepth, maxPages, concurrency, failing,
                   run_concurrency, run_max_depth, run_crawl_external,
                   run_include_patterns, run_exclude_patterns, w_sawStop, pause, call,
                   stopped>>

\* cancelRemainingItems(db, runId, reason): one transaction.
CancelRemainingItems(reason) ==
    /\ queue' = CancelItems(queue, reason)
    /\ run_status' = "canceled"

\* await cancelRemainingItems(..., `Reached maximum pages limit`); task ends.
CancelMaxPages(w) ==
    /\ w_pc[w] = "cancelMaxPages"
    /\ CancelRemainingItems("Reached maximum pages limit")
    /\ TaskFulfilled(w)
    /\ UNCHANGED <<maxDepth, maxPages, concurrency, failing,
                   run_concurrency, run_max_depth, run_crawl_external,
                   run_include_patterns, run_exclude_patterns, w_sawStop, pause, call,
                   processedPages, isProcessing, stopped>>

\* Mutant of MarkFailed: the first failed item stops the run.
MarkFailedStopsRun(w) ==
    /\ w_pc[w] = "markFailed"
    /\ LET q == SetItem(queue, w_item[w], "failed", "fetch failed")
       IN /\ queue' = q
          /\ IF CountStatus(q, "failed") > 0
             THEN /\ run_status' = "failed"
                  /\ w_pc' = [w_pc EXCEPT ![w] = "cancelTooMany"]
                  /\ UNCHANGED <<activePromises, main, w_item, w_existing>>
             ELSE /\ TaskFulfilled(w)
                  /\ UNCHANGED run_status
    /\ UNCHANGED <<maxDepth, maxPages, concurrency, failing,
                   run_concurrency, run_max_depth, run_crawl_external,
                   run_include_patterns, run_exclude_patterns, w_sawStop, pause, call,
                   processedPages, isProcessing, stopped>>

\* catch (error): the transaction that marks the item failed, counts the
\* failed items and, above the threshold, marks the run failed.
MarkFailed(w) ==
    /\ w_pc[w] = "markFailed"
    /\ LET q == SetItem(queue, w_item[w], "failed", "fetch failed")
       IN /\ queue' = q
          /\ IF CountStatus(q, "failed") > FailThreshold
             THEN /\ run_status' = "failed"
                  /\ w_pc' = [w_pc EXCEPT ![w] = "cancelTooMany"]
                  /\ UNCHANGED <<activePromises, main, w_item, w_existing>>
             ELSE /\ TaskFulfilled(w)
                  /\ UNCHANGED run_status
    /\ UNCHANGED <<maxDepth, maxPages, concurrency, failing,
                   run_concurrency, run_max_depth, run_crawl_external,
                   run_include_patterns, run_exclude_patterns, w_sawStop, pause, call,
                   processedPages, isProcessing, stopped>>

\* if (shouldStopCrawling): cancelRemainingItems('Too many failed requests'),
\* then throw NodeOperationError.
CancelTooMany(w) ==
    /\ w_pc[w] = "cancelTooMany"
    /\ CancelRemainingItems("Too many failed requests")
    /\ TaskRejected(w, "Too many failed requests, stopping crawler")
    /\ UNCHANGED <<maxDepth, maxPages, concurrency, failing,
                   run_concurrency, run_max_depth, run_crawl_external,
                   run_include_patterns, run_exclude_patterns, w_sawStop, pause, call, processedPages>>

\* ---------------------------------------------- processCrawlerQueue itself
\* await Promise.all(processors) resolves: straight to finally.
AllProcessorsDone ==
    /\ main.pc = "awaitAll"
    /\ \A w \in Workers : w_pc[w] \in {"exited", "unused"}
    /\ main' = [main EXCEPT !.pc = "finallyCount"]
    /\ UNCHANGED <<run_status, queue, maxDepth, maxPages, concurrency, failing,
                   run_concurrency, run_max_depth, run_crawl_external,
                   run_include_patterns, run_exclude_patterns, w_sawStop, pause, call,
                   processedPages, isProcessing, stopped, activePromises,
                   w_pc, w_item, w_existing>>

\* catch: await cancelRemainingItems(db, runId, error.message); throw error
CatchCancel ==
    /\ main.pc = "catchCancel"
    /\ CancelRemainingItems(main.error)
    /\ main' = [main EXCEPT !.pc = "finallyCount"]
    /\ UNCHANGED <<maxDepth, maxPages, concurrency, failing,
                   run_concurrency, run_max_depth, run_crawl_external,
                   run_include_patterns, run_exclude_patterns, w_sawStop, pause, call,
                   processedPages, isProcessing, stopped, activePromises,
                   w_pc, w_item, w_existing>>

\* finally: SELECT COUNT(*) ... status IN ('pending', 'processing')
FinallyCount ==
    /\ main.pc = "finallyCount"
    /\ main' = [main EXCEPT !.pc =
                  IF CountStatus(queue, "pending") + CountStatus(queue, "processing") > 0
                  THEN "finallyCancel" ELSE "finallyComplete"]
    /\ UNCHANGED <<run_status, queue, maxDepth, maxPages, concurrency, failing,
                   run_concurrency, run_max_depth, run_crawl_external,
                   run_include_patterns, run_exclude_patterns, w_sawStop, pause, call,
                   processedPages, isProcessing, stopped, activePromises,
                   w_pc, w_item, w_existing>>

\* The function is left: it returns, or rethrows the pending error.
Finished == IF main.error = NoError THEN "returned" ELSE "thrown"

\* finally: await cancelRemainingItems(db, runId, 'Crawler process ended')
FinallyCancel ==
    /\ main.pc = "finallyCancel"
    /\ CancelRemainingItems("Crawler process ended")
    /\ main' = [main EXCEPT !.pc = Finished]
    /\ UNCHANGED <<maxDepth, maxPages, concurrency, failing,
                   run_concurrency, run_max_depth, run_crawl_external,
                   run_include_patterns, run_exclude_patterns, w_sawStop, pause, call,
                   processedPages, isProcessing, stopped, activePromises,
                   w_pc, w_item, w_existing>>

\* finally: UPDATE crawler_runs SET status = 'completed'
FinallyComplete ==
    /\ main.pc = "finallyComplete"
    /\ run_status' = "completed"
    /\ main' = [main EXCEPT !.pc = Finished]
    /\ UNCHANGED <<queue, maxDepth, maxPages, concurrency, failing,
                   run_concurrency, run_max_depth, run_crawl_external,
                   run_include_patterns, run_exclude_patterns, w_sawStop, pause, call,
                   processedPages, isProcessing, stopped, activePromises,
                   w_pc, w_item, w_existing>>

Next ==
    \/ \E w \in Workers : LoopTest(w)
    \/ \E w \in Workers : ClaimNext(w)
    \/ \E w \in Workers : NoItemStats(w)
    \/ \E w \in Workers : MarkRunFailed(w)
    \/ \E w \in Workers : QueueAdd(w)
    \/ \E w \in Workers : CheckRunStatus(w)
    \/ \E w \in Workers : Fetch(w)
    \/ \E w \in Workers : SelectExisting(w)
    \/ \E w \in Workers : InsertLinks(w)
    \/ \E w \in Workers : MarkCompleted(w)
    \/ \E w \in Workers : CountPage(w)
    \/ \E w \in Workers : CancelMaxPages(w)
    \/ \E w \in Workers : MarkFailed(w)
    \/ \E w \in Workers : CancelTooMany(w)
    \/ AllProcessorsDone
    \/ CatchCancel
    \/ FinallyCount
    \/ FinallyCancel
    \/ FinallyComplete

Spec == Init /\ [][Next]_vars

SpecWide == InitWide /\ [][Next]_vars


\* Scheduling: a processor whose awaited query, fetch or timer has settled
\* is run by the event loop, and so is processCrawlerQueue itself.
ProcessorStep(w) ==
    \/ LoopTest(w)
    \/ ClaimNext(w)
    \/ NoItemStats(w)
    \/ MarkRunFailed(w)
    \/ QueueAdd(w)
    \/ CheckRunStatus(w)
    \/ Fetch(w)
    \/ SelectExisting(w)
    \/ InsertLinks(w)
    \/ MarkCompleted(w)
    \/ CountPage(w)
    \/ CancelMaxPages(w)
    \/ MarkFailed(w)
    \/ CancelTooMany(w)

MainStep ==
    \/ AllProcessorsDone
    \/ CatchCancel
    \/ FinallyCount
    \/ FinallyCancel
    \/ FinallyComplete

SpecFair ==
    /\ Init
    /\ [][Next]_vars
    /\ \A w \in Workers : WF_vars(ProcessorStep(w))
    /\ WF_vars(MainStep)

\* ------------------------------------------------- crawler-start, the end
\* The statuses at which waitForCrawlerToFinish stops polling.
FinishedStatuses == {"completed", "failed", "canceled"}

\* Mutant of WaitForCrawlerToFinish: only a completed run ends the wait.
WaitForCompletedOnly ==
    /\ main.pc = "returned"
    /\ run_status = "completed"
    /\ main' = [main EXCEPT !.pc = "executionReturned"]
    /\ UNCHANGED <<run_status, queue, maxDepth, maxPages, concurrency, failing,
                   run_concurrency, run_max_depth, run_crawl_external,
                   run_include_patterns, run_exclude_patterns, w_sawStop, pause, call,
                   processedPages, isProcessing, stopped, activePromises,
                   w_pc, w_item, w_existing>>

\* executeCrawler after processCrawlerQueue has returned:
\* await waitForCrawlerToFinish(db, run.id).  Every second the interval
\* callback reads the run's status; at a finished status it clears the
\* interval and resolves, and the execution returns the results.  A tick at
\* another status changes nothing.
WaitForCrawlerToFinish ==
    /\ main.pc = "returned"
    /\ run_status \in FinishedStatuses
    /\ main' = [main EXCEPT !.pc = "executionReturned"]
    /\ UNCHANGED <<run_status, queue, maxDepth, maxPages, concurrency, failing,
                   run_concurrency, run_max_depth, run_crawl_external,
                   run_include_patterns, run_exclude_patterns, w_sawStop, pause, call,
                   processedPages, isProcessing, stopped, activePromises,
                   w_pc, w_item, w_existing>>

\* executeCrawler after processCrawlerQueue has thrown: the catch block
\* closes the connection and throws a NodeOperationError; the wait is not
\* started.
ExecuteCrawlerCatch ==
    /\ main.pc = "thrown"
    /\ main' = [main EXCEPT !.pc = "executionThrown"]
    /\ UNCHANGED <<run_status, queue, maxDepth, maxPages, concurrency, failing,
                   run_concurrency, run_max_depth, run_crawl_external,
                   run_include_patterns, run_exclude_patterns, w_sawStop, pause, call,
                   processedPages, isProcessing, stopped, activePromises,
                   w_pc, w_item, w_existing>>

NextStart ==
    \/ Next
    \/ WaitForCrawlerToFinish
    \/ ExecuteCrawlerCatch

\* The event loop also runs the interval callback and the catch block.
ExecutionStep ==
    \/ MainStep
    \/ WaitForCrawlerToFinish
    \/ ExecuteCrawlerCatch

\* A crawler-start execution from the inserted run to its end, fairly
\* scheduled.
SpecStart ==
    /\ Init
    /\ [][NextStart]_vars
    /\ \A w \in Workers : WF_vars(ProcessorStep(w))
    /\ WF_vars(ExecutionStep)

\* Two processors on the tree site, deep and long enough to crawl all of it;
\* and one processor on the fan site where many fetches fail.
InitTree ==
    \/ /\ StartAt(TreeStart, {MaxDepthBound + 1}, {MaxPagesBound + 2},
                  {MaxConcurrency}, {{}})
       /\ run_concurrency = concurrency
    \/ Start({1}, {ManyFail})

SpecTree == InitTree /\ [][Next]_vars

\* crawler-start: executeCrawler stores the 'Concurrent Requests' parameter
\* in crawler_runs.concurrency and calls processCrawlerQueue with db, run.id,
\* max_depth, max_pages, the patterns, crawl_external and settings, and with
\* no concurrency argument.
InitCrawlerStart ==
    /\ StartAt(StartUrl, 1 .. MaxDepthBound, 1 .. MaxPagesBound,
               {DefaultConcurrency}, FewFail \cup {ManyFail})
    /\ run_concurrency \in 1 .. MaxConcurrency

\* ------------------------------------------- crawler-pause, crawler-resume
\* The invocation of processCrawlerQueue has returned or thrown and none of
\* its tasks is still running.
Idle ==
    /\ main.pc \in {"returned", "thrown"}
    /\ \A w \in Workers : w_pc[w] \in {"exited", "rejected", "unused"}

\* crawler-pause, from another execution of the node:
\* UPDATE crawler_runs SET status = 'paused' WHERE id = runId.
\* The history records the items that were pending when the pause was
\* applied to a run that is being processed.
Pause ==
    /\ run_status # "paused"
    /\ run_status' = "paused"
    /\ pause' = IF main.pc \notin {"returned", "thrown"}
                   /\ PendingIds(queue) # {}
                THEN [applied |-> TRUE, pending |-> PendingIds(queue)]
                ELSE pause
    /\ UNCHANGED <<queue, maxDepth, maxPages, concurrency, failing,
                   run_concurrency, run_max_depth, run_crawl_external,
                   run_include_patterns, run_exclude_patterns, w_sawStop, call,
                   processedPages, isProcessing, stopped, activePromises, main,
                   w_pc, w_item, w_existing>>

\* crawler-resume: the run is set to 'running' whatever its status was, and
\* processCrawlerQueue is called with the node's maxDepth and maxPages and
\* without a concurrency argument (default 1).
Resume ==
    /\ Idle
    /\ run_status' = "running"
    /\ maxDepth' \in 1 .. MaxDepthBound
    /\ maxPages' \in 1 .. MaxPagesBound
    /\ concurrency' = DefaultConcurrency
    /\ processedPages' = 0
    /\ isProcessing' = TRUE
    /\ stopped' = FALSE
    /\ activePromises' = {}
    /\ main' = [pc |-> "awaitAll", waitFor |-> {}, error |-> NoError]
    /\ w_pc' = [w \in Workers |->
                  IF w <= DefaultConcurrency THEN "loop" ELSE "unused"]
    /\ w_item' = [w \in Workers |-> 0]
    /\ w_existing' = [w \in Workers |-> {}]
    /\ w_sawStop' = {}
    /\ pause' = [applied |-> FALSE, pending |-> {}]
    /\ UNCHANGED <<queue, failing, run_concurrency, run_max_depth, run_crawl_external,
                   run_include_patterns, run_exclude_patterns, call>>

NextPause ==
    \/ Next
    \/ Pause
    \/ Resume

\* The node as it is used: crawler-start, then crawler-pause and
\* crawler-resume executions on the same run.
SpecPause == InitCrawlerStart /\ [][NextPause]_vars

\* crawler-resume executed while an earlier execution is still inside
\* processCrawlerQueue on the same run (crawler-resume does not look at the
\* run's status or at what is going on): a second invocation starts, with
\* the node's maxDepth and maxPages and with one processor.  The earlier
\* invocation is followed no further: its processors are taken to be slow,
\* and the items they hold stay 'processing'.  No more than two invocations
\* overlap: every item that is 'processing' is held by a processor of the
\* invocation that is followed.
ResumeWhileProcessing ==
    /\ ~Idle
    /\ \A i \in Ids : queue[i].status = "processing" =>
                         \E w \in Workers : w_item[w] = i
    /\ run_status' = "running"
    /\ maxDepth' \in 1 .. MaxDepthBound
    /\ maxPages' \in 1 .. MaxPagesBound
    /\ concurrency' = DefaultConcurrency
    /\ processedPages' = 0
    /\ isProcessing' = TRUE
    /\ stopped' = FALSE
    /\ activePromises' = {}
    /\ main' = [pc |-> "awaitAll", waitFor |-> {}, error |-> NoError]
    /\ w_pc' = [w \in Workers |->
                  IF w <= DefaultConcurrency THEN "loop" ELSE "unused"]
    /\ w_item' = [w \in Workers |-> 0]
    /\ w_existing' = [w \in Workers |-> {}]
    /\ w_sawStop' = {}
    /\ pause' = [applied |-> FALSE, pending |-> {}]
    /\ UNCHANGED <<queue, failing, run_concurrency, run_max_depth, run_crawl_external,
                   run_include_patterns, run_exclude_patterns, call>>

\* crawler-start with 'Concurrent Requests' left at its default.
InitResume ==
    /\ StartAt(StartUrl, 1 .. MaxDepthBound, 1 .. MaxPagesBound,
               {DefaultConcurrency}, FewFail \cup {ManyFail})
    /\ run_concurrency = DefaultConcurrency

NextResume ==
    \/ NextPause
    \/ ResumeWhileProcessing

\* crawler-start, crawler-pause and crawler-resume executions on the same
\* run, at any time.
SpecResume == InitResume /\ [][NextResume]_vars


\* ------------------------------------------------------------ url strings
\* A string is a sequence of pieces; "/", ":", "?", "#" and "*" are pieces
\* of their own, a scheme with its colon is one piece, and so is every other
\* run of characters the functions below never look into.
Http == <<"http:", "/", "/">>
Https == <<"https:", "/", "/">>

\* str.replace(/^https?:\/\//, '')
StripScheme(s) ==
    IF Len(s) >= 3 /\ s[1] \in {"http:", "https:"} /\ s[2] = "/" /\ s[3] = "/"
    THEN SubSeq(s, 4, Len(s))
    ELSE s

\* The index of the first piece of s at or after i that is in set, or
\* Len(s) + 1.
RECURSIVE Find(_, _, _)
Find(s, i, set) ==
    IF i > Len(s) THEN Len(s) + 1
    ELSE IF s[i] \in set THEN i
    ELSE Find(s, i + 1, set)

\* s.split('/')
RECURSIVE SplitSlash(_)
SplitSlash(s) ==
    LET k == Find(s, 1, {"/"})
    IN IF k > Len(s) THEN <<s>>
       ELSE <<SubSeq(s, 1, k - 1)>> \o SplitSlash(SubSeq(s, k + 1, Len(s)))

\* minimatch inside one path portion: a `*` (or a run of them) matches any
\* run of pieces, every other piece matches itself.  (No portion of the
\* strings examined here starts with a dot or is empty.)
RECURSIVE SegMatch(_, _)
SegMatch(seg, pat) ==
    IF pat = <<>> THEN seg = <<>>
    ELSE IF Head(pat) = "*"
         THEN \/ SegMatch(seg, Tail(pat))
              \/ seg # <<>> /\ SegMatch(Tail(seg), pat)
    ELSE /\ seg # <<>>
         /\ Head(seg) = Head(pat)
         /\ SegMatch(Tail(seg), Tail(pat))

\* A pattern portion that is exactly `**`: the globstar.
GlobStar == <<"*", "*">>

\* minimatch on the portions of the path and of the pattern: a globstar
\* matches zero or more whole portions, any other pattern portion matches
\* exactly one portion, by SegMatch.
RECURSIVE MatchPortions(_, _)
MatchPortions(file, pattern) ==
    IF pattern = <<>> THEN file = <<>>
    ELSE IF Head(pattern) = GlobStar
         THEN \E k \in 0 .. Len(file) :
                 MatchPortions(SubSeq(file, k + 1, Len(file)), Tail(pattern))
    ELSE /\ file # <<>>
         /\ SegMatch(Head(file), Head(pattern))
         /\ MatchPortions(Tail(file), Tail(pattern))

\* minimatch(path, pattern) with default options.
Minimatch(path, pattern) ==
    MatchPortions(SplitSlash(path), SplitSlash(pattern))

\* for (const pattern of includePatterns) { if (minimatch(...)) {
\*     shouldInclude = true; break; } }
RECURSIVE IncludeLoop(_, _, _)
IncludeLoop(urlForMatching, patterns, shouldInclude) ==
    IF patterns = <<>> THEN shouldInclude
    ELSE IF Minimatch(urlForMatching, StripScheme(Head(patterns))) THEN TRUE
    ELSE IncludeLoop(urlForMatching, Tail(patterns), shouldInclude)

\* for (const pattern of excludePatterns) { if (minimatch(...)) return false; }
\* return shouldInclude;
RECURSIVE ExcludeLoop(_, _, _)
ExcludeLoop(urlForMatching, patterns, shouldInclude) ==
    IF patterns = <<>> THEN shouldInclude
    ELSE IF Minimatch(urlForMatching, StripScheme(Head(patterns))) THEN FALSE
    ELSE ExcludeLoop(urlForMatching, Tail(patterns), shouldInclude)

\* Mutant of shouldProcessUrl: a url that matches an include pattern is not
\* tested against the exclude patterns.
shouldProcessUrlIncludeWins(url, includePatterns, excludePatterns) ==
    LET urlForMatching == StripScheme(url)
    IN IF IncludeLoop(urlForMatching, includePatterns, FALSE) THEN TRUE
       ELSE ExcludeLoop(urlForMatching, excludePatterns,
                        Len(includePatterns) = 0)

shouldProcessUrl(url, includePatterns, excludePatterns) ==
    LET urlForMatching == StripScheme(url)
    IN ExcludeLoop(urlForMatching, excludePatterns,
                   IncludeLoop(urlForMatching, includePatterns,
                               Len(includePatterns) = 0))


\* --------------------------------------------------------------- new URL()
\* toLowerCase on the pieces that have upper-case letters.
Lower(piece) ==
    CASE piece = "HTTP:" -> "http:"
      [] piece = "HTTPS:" -> "https:"
      [] piece = "A.COM" -> "a.com"
      [] OTHER -> piece

HostPieces == {"a.com", "A.COM", "b.org"}
PortPieces == {"80", "443", "8080"}

\* The schemes with a host ("special" schemes) and those whose urls are a
\* scheme and an opaque path.
SpecialSchemes == {"http:", "https:", "ftp:"}
OpaqueSchemes == {"mailto:", "javascript:", "tel:"}

DefaultPort(protocol) ==
    IF protocol = "http:" THEN "80"
    ELSE IF protocol = "https:" THEN "443"
    ELSE "21"

RECURSIVE SkipSlashes(_, _)
SkipSlashes(s, i) ==
    IF i <= Len(s) /\ s[i] = "/" THEN SkipSlashes(s, i + 1) ELSE i

\* new URL(url) without a base.  For http, https and ftp urls the scheme and
\* the host are lower-cased, the slashes after the scheme are skipped, a
\* default or empty port is dropped, an empty path becomes "/".  A mailto:,
\* javascript: or tel: url has no host and keeps what follows the scheme as
\* its path.  ok = FALSE stands for the TypeError thrown for a string that
\* is not an absolute url.
URLParse(s) ==
    IF s = <<>> \/ Lower(s[1]) \notin SpecialSchemes \cup OpaqueSchemes
    THEN [ok |-> FALSE]
    ELSE IF s[1] \in OpaqueSchemes
    THEN LET pathEnd == Find(s, 2, {"?", "#"})
             hashPos == Find(s, 2, {"#"})
         IN [ok |-> TRUE, protocol |-> s[1], hostname |-> "", port |-> "",
             pathname |-> SubSeq(s, 2, pathEnd - 1),
             search |-> SubSeq(s, pathEnd, hashPos - 1),
             fragment |-> SubSeq(s, hashPos, Len(s))]
    ELSE
      LET protocol == Lower(s[1])
          h == SkipSlashes(s, 2)
      IN IF h > Len(s) \/ s[h] \notin HostPieces THEN [ok |-> FALSE]
         ELSE
           LET colon == h + 1 <= Len(s) /\ s[h + 1] = ":"
               digits == colon /\ h + 2 <= Len(s) /\ s[h + 2] \in PortPieces
               p == h + 1 + (IF colon THEN 1 ELSE 0) + (IF digits THEN 1 ELSE 0)
               pathEnd == Find(s, p, {"?", "#"})
               hashPos == Find(s, p, {"#"})
           IN IF p <= Len(s) /\ s[p] \notin {"/", "?", "#"} THEN [ok |-> FALSE]
              ELSE [ok |-> TRUE,
                    protocol |-> protocol,
                    hostname |-> Lower(s[h]),
                    port |-> IF digits /\ s[h + 2] # DefaultPort(protocol)
                             THEN s[h + 2] ELSE "",
                    pathname |-> IF pathEnd = p THEN <<"/">>
                                 ELSE SubSeq(s, p, pathEnd - 1),
                    search |-> SubSeq(s, pathEnd, hashPos - 1),
                    fragment |-> SubSeq(s, hashPos, Len(s))]

\* parsed.pathname = value: the path of an http(s) url is never empty, and
\* an opaque path cannot be set.
SetPathname(parsed, value) ==
    IF parsed.protocol \in OpaqueSchemes THEN parsed
    ELSE [parsed EXCEPT !.pathname = IF value = <<>> THEN <<"/">> ELSE value]

\* parsed.toString()
Serialize(parsed) ==
    IF parsed.protocol \in OpaqueSchemes
    THEN <<parsed.protocol>> \o parsed.pathname \o parsed.search
            \o parsed.fragment
    ELSE <<parsed.protocol, "/", "/", parsed.hostname>>
            \o (IF parsed.port = "" THEN <<>> ELSE <<":", parsed.port>>)
            \o parsed.pathname \o parsed.search \o parsed.fragment

\* Mutant of normalizeUrl: the trailing slash is cut from the serialized url.
normalizeUrlTrimSlash(url) ==
    LET parsed == URLParse(url)
    IN IF ~parsed.ok THEN url
       ELSE LET out == Serialize([parsed EXCEPT !.fragment = <<>>])
            IN IF out[Len(out)] = "/" THEN SubSeq(out, 1, Len(out) - 1) ELSE out

normalizeUrl(url) ==
    LET parsed == URLParse(url)
    IN IF ~parsed.ok THEN url
       ELSE
         LET noHash == [parsed EXCEPT !.fragment = <<>>]
             noSlash == IF noHash.pathname = <<"/">>
                        THEN SetPathname(noHash, <<>>) ELSE noHash
             noPort == IF \/ noSlash.protocol = "http:" /\ noSlash.port = "80"
                          \/ noSlash.protocol = "https:" /\ noSlash.port = "443"
                       THEN [noSlash EXCEPT !.port = ""] ELSE noSlash
             lowered == [noPort EXCEPT !.hostname = Lower(noPort.hostname)]
         IN Serialize(lowered)

\* ----------------------------------------------- calls of the url functions
\* The urls handed to shouldProcessUrl are hrefs of parsed URLs: a scheme, a
\* host and a path.
MatchPaths ==
    { <<"/", "x", ".pdf">>, <<"/", "x", ".html">>,
      <<"/", "d", "/", "x", ".pdf">>, <<"/", "d", "/", "x", ".html">> }

MatchUrls ==
    { scheme \o <<host>> \o path :
        scheme \in {Http, Https}, host \in {"a.com", "b.org"}, path \in MatchPaths }

\* The patterns **.pdf, **/*.pdf, https://a.com/** and a.com/*.html.
PdfAnywhere == <<"*", "*", ".pdf">>
Patterns ==
    { PdfAnywhere, <<"*", "*", "/", "*", ".pdf">>,
      Https \o <<"a.com", "/", "*", "*">>, <<"a.com", "/", "*", ".html">> }

PatternLists == UNION { [1 .. n -> Patterns] : n \in 0 .. MaxPatterns }

\* The crawler's variables, which the url functions neither read nor write.
crawler == <<run_status, queue, maxDepth, maxPages, concurrency, failing,
             processedPages, isProcessing, stopped, activePromises, main,
             w_pc, w_item, w_existing, run_concurrency, run_max_depth, run_crawl_external,
                   run_include_patterns, run_exclude_patterns, w_sawStop, pause>>

CallShouldProcessUrl ==
    /\ call = NoCall
    /\ \E url \in MatchUrls, includePatterns \in PatternLists,
          excludePatterns \in PatternLists :
          call' = [fn |-> "shouldProcessUrl", url |-> url,
                   includePatterns |-> includePatterns,
                   excludePatterns |-> excludePatterns,
                   result |-> shouldProcessUrl(url, includePatterns,
                                               excludePatterns)]
    /\ UNCHANGED crawler

\* The strings handed to normalizeUrl: absolute http(s) urls in many
\* spellings, and strings that are no absolute url.
AbsoluteUrls ==
    { <<scheme>> \o slashes \o <<host>> \o port \o path \o search \o fragment :
        scheme \in {"http:", "HTTP:", "https:"},
        slashes \in {<<"/", "/">>, <<>>},
        host \in {"a.com", "A.COM"},
        port \in {<<>>, <<":">>, <<":", "80">>, <<":", "443">>, <<":", "8080">>},
        path \in {<<>>, <<"/">>, <<"/", "p">>, <<"/", "p", "/">>,
                  <<"/", "p", "/", "/">>},
        search \in {<<>>, <<"?", "q">>},
        fragment \in {<<>>, <<"#">>, <<"#", "f">>} }

MalformedUrls ==
    { <<>>, <<"a.com">>, <<"a.com", "/", "p">>, <<"/", "p">>, <<"#", "f">>,
      <<"http:">>, <<"http:", "/", "/">>,
      <<"http:", "/", "/", "a.com", ":", "x">> }

CallNormalizeUrl ==
    /\ call = NoCall
    /\ \E url \in AbsoluteUrls \cup MalformedUrls :
          call' = [fn |-> "normalizeUrl", url |-> url,
                   result |-> normalizeUrl(url)]
    /\ UNCHANGED crawler

\* The caller has taken the result.
ReturnCall ==
    /\ call # NoCall
    /\ call' = NoCall
    /\ UNCHANGED crawler

\* The url functions, called on any of the inputs above; no crawl is going
\* on.
InitUrl ==
    /\ StartAt(StartUrl, {1}, {1}, {DefaultConcurrency}, {{}})
    /\ run_concurrency = DefaultConcurrency

NextUrl ==
    \/ CallShouldProcessUrl
    \/ CallNormalizeUrl
    \/ ReturnCall

SpecUrl == InitUrl /\ [][NextUrl]_vars

\* ------------------------------------------------------- link extraction
\* The part of a path up to and including its last "/".
RECURSIVE DirName(_)
DirName(path) ==
    IF path = <<>> \/ path[Len(path)] = "/" THEN path
    ELSE DirName(SubSeq(path, 1, Len(path) - 1))

\* new URL(href, base): an href that is an absolute url stands for itself;
\* any other href is a reference relative to base, which must be an
\* absolute url itself.  A reference is a fragment, a query, a
\* scheme-relative reference ("//host/path"), an absolute path or a path
\* relative to the directory of the base's path; only a fragment can be
\* resolved against a base with an opaque path.  (No href examined here has
\* dot segments.)
URLParseWithBase(href, base) ==
    LET abs == URLParse(href)
        b == URLParse(base)
        pathEnd == Find(href, 1, {"?", "#"})
        hashPos == Find(href, 1, {"#"})
        path == SubSeq(href, 1, pathEnd - 1)
        search == SubSeq(href, pathEnd, hashPos - 1)
        fragment == SubSeq(href, hashPos, Len(href))
    IN IF abs.ok THEN abs
       ELSE IF ~b.ok THEN [ok |-> FALSE]
       ELSE IF href = <<>> THEN [b EXCEPT !.fragment = <<>>]
       ELSE IF href[1] = "#" THEN [b EXCEPT !.fragment = fragment]
       ELSE IF b.protocol \in OpaqueSchemes THEN [ok |-> FALSE]
       ELSE IF href[1] = "?"
            THEN [b EXCEPT !.search = search, !.fragment = fragment]
       ELSE IF Len(href) >= 2 /\ href[1] = "/" /\ href[2] = "/"
            THEN URLParse(<<b.protocol>> \o href)
       ELSE IF href[1] = "/"
            THEN [b EXCEPT !.pathname = path, !.search = search,
                           !.fragment = fragment]
       ELSE [b EXCEPT !.pathname = DirName(b.pathname) \o path,
                      !.search = search, !.fragment = fragment]

\* One pass of $('a[href]').each(...) over the hrefs of a page, in document
\* order: an empty href is skipped, an href for which new URL throws is
\* skipped, and the normalized url is added to includedLinks (a Set, which
\* keeps the order of first insertion) if shouldProcessUrl accepts it and
\* crawlExternal is set or its hostname is the hostname of queueItem.url.
RECURSIVE IncludedLinks(_, _, _, _, _, _)
IncludedLinks(hrefs, base, itemUrl, includePatterns, excludePatterns, crawlExternal) ==
    IF hrefs = <<>> THEN <<>>
    ELSE
      LET rest == IncludedLinks(SubSeq(hrefs, 1, Len(hrefs) - 1), base, itemUrl,
                                includePatterns, excludePatterns, crawlExternal)
          href == hrefs[Len(hrefs)]
          resolved == URLParseWithBase(href, base)
          normalizedUrl == normalizeUrl(Serialize(resolved))
          item == URLParse(itemUrl)
      IN IF href = <<>> \/ ~resolved.ok THEN rest
         ELSE IF /\ shouldProcessUrl(normalizedUrl, includePatterns,
                                     excludePatterns)
                 /\ \/ crawlExternal
                    \/ /\ item.ok
                       /\ URLParse(normalizedUrl).hostname = item.hostname
                 /\ \A k \in 1 .. Len(rest) : rest[k] # normalizedUrl
              THEN Append(rest, normalizedUrl)
         ELSE rest

\* The hrefs of the a[href] elements of the page fetched for url, in
\* document order: the same on every http(s) page of the site; what is
\* returned for any other url has no links.
PageHrefs(url) ==
    IF ~URLParse(url).ok \/ URLParse(url).protocol \notin {"http:", "https:"}
    THEN <<>>
    ELSE
    << <<>>,
       <<"#">>,
       <<"javascript:", "void(0)">>,
       <<"mailto:", "x">>,
       <<"ftp:", "/", "/", "a.com", "/", "f">>,
       <<"c">>,
       <<"/", "r">>,
       <<"/", "x">>,
       <<"https:", "/", "/", "a.com", "/">>,
       <<"https:", "/", "/", "b.org", "/", "p">> >>

\* scrapeResult.info.finalUrl: the address the fetcher ended at.  The page
\* /r redirects to /d/ on its own host and the page /x to another host; for
\* the page /c the fetcher reports no final url.
NoFinalUrl == <<>>
FinalUrl(url) ==
    LET parsed == URLParse(url)
    IN IF ~parsed.ok THEN url
       ELSE IF parsed.pathname = <<"/", "c">> THEN NoFinalUrl
       ELSE IF parsed.pathname = <<"/", "r">>
            THEN Serialize([parsed EXCEPT !.pathname = <<"/", "d", "/">>])
       ELSE IF parsed.pathname = <<"/", "x">>
            THEN Serialize([parsed EXCEPT
                              !.hostname = IF @ = "a.com" THEN "b.org" ELSE "a.com",
                              !.pathname = <<"/", "d", "/">>])
       ELSE url

\* Mutant of TaskLinks: the page's final url takes the place of
\* queueItem.url.
TaskLinksOfFinalUrl(item) ==
    LET finalUrl == IF FinalUrl(item.url) = NoFinalUrl THEN item.url
                    ELSE FinalUrl(item.url)
    IN IncludedLinks(PageHrefs(item.url), finalUrl, finalUrl,
                     run_include_patterns, run_exclude_patterns,
                     run_crawl_external)

\* includedLinks of the task that holds item: relative hrefs are resolved
\* with new URL(href, queueItem.url).
TaskLinks(item) ==
    IncludedLinks(PageHrefs(item.url), item.url, item.url,
                  run_include_patterns, run_exclude_patterns,
                  run_crawl_external)

\* values = newLinks.map(link => ({run_id, url: normalizeUrl(link), status:
\* 'pending', parent_url: queueItem.url, depth: queueItem.depth + 1})), where
\* newLinks are the includedLinks that are not among existingUrls.
LinkRows(links, existingUrls, parent) ==
    LET newLinks == SelectSeq(links, LAMBDA link : link \notin existingUrls)
    IN [k \in 1 .. Len(newLinks) |->
          [url |-> normalizeUrl(newLinks[k]), status |-> "pending",
           parent_url |-> parent.url, depth |-> parent.depth + 1,
           error |-> NoError]]

\* Enqueue transaction, second statement, on the site of url strings.
InsertIncludedLinks(w) ==
    /\ w_pc[w] = "insertLinks"
    /\ queue' = queue \o LinkRows(TaskLinks(queue[w_item[w]]), w_existing[w],
                                  queue[w_item[w]])
    /\ w_existing' = [w_existing EXCEPT ![w] = {}]
    /\ w_pc' = [w_pc EXCEPT ![w] = "markCompleted"]
    /\ UNCHANGED <<run_status, maxDepth, maxPages, concurrency, failing,
                   run_concurrency, run_max_depth, run_crawl_external,
                   run_include_patterns, run_exclude_patterns, w_sawStop,
                   pause, call, processedPages, isProcessing, stopped,
                   activePromises, main, w_item>>

\* The start urls given to crawler-start.
SeedUrls ==
    { <<"https:", "/", "/", "a.com">>,
      <<"https:", "/", "/", "a.com", "/">>,
      <<"https:", "/", "/", "A.COM", "/", "c", "#", "f">>,
      <<"http:", "/", "/", "a.com", ":", "80", "/", "r">> }

\* The pattern lists of a run: none, or the pattern https://a.com/**.
HostAnywhere == Https \o <<"a.com", "/", "*", "*">>
RunPatterns == {<<>>, <<HostAnywhere>>}

\* crawler-start on the site of url strings, with 'Concurrent Requests' left
\* at its default and a page limit of one or one the site does not reach:
\* no fetch fails.
InitLinks ==
    /\ \E seed \in SeedUrls :
          StartRun(seed, 1 .. MaxDepthBound, {1, LinkPages},
                   {DefaultConcurrency}, {{}},
                   BOOLEAN, RunPatterns, RunPatterns)
    /\ run_concurrency = DefaultConcurrency

\* The steps of a run in which no fetch fails and one processor works.
NextLinks ==
    \/ \E w \in Workers : LoopTest(w)
    \/ \E w \in Workers : ClaimNext(w)
    \/ \E w \in Workers : NoItemStats(w)
    \/ \E w \in Workers : QueueAdd(w)
    \/ \E w \in Workers : CheckRunStatus(w)
    \/ \E w \in Workers : Fetch(w)
    \/ \E w \in Workers : SelectExisting(w)
    \/ \E w \in Workers : InsertIncludedLinks(w)
    \/ \E w \in Workers : MarkCompleted(w)
    \/ \E w \in Workers : CountPage(w)
    \/ \E w \in Workers : CancelMaxPages(w)
    \/ AllProcessorsDone
    \/ FinallyCount
    \/ FinallyComplete

SpecLinks == InitLinks /\ [][NextLinks]_vars

\* ------------------------------------------------- cancelRemainingItems
\* The tables crawler_runs and crawler_queue holding two runs: rows of
\* crawler_queue with their run_id, status and error, at most MaxRows of them.
RunIds == {1, 2}

QueueRows ==
    {[run_id |-> r, status |-> st,
      error |-> IF st = "failed" THEN "fetch failed"
                ELSE IF st = "canceled" THEN "Too many failed requests"
                ELSE NoError] :
        r \in RunIds,
        st \in {"pending", "processing", "completed", "failed", "canceled"}}

Databases ==
    {[crawler_runs |-> runs, crawler_queue |-> rows] :
        runs \in [RunIds -> {"running", "completed"}],
        rows \in UNION {[1 .. n -> QueueRows] : n \in 0 .. MaxRows}}

\* Mutant of CancelRemainingItemsTx: the UPDATE of crawler_queue has no
\* run_id condition.
CancelRemainingItemsAnyRun(db, runId, reason) ==
    [crawler_queue |-> CancelItems(db.crawler_queue, reason),
     crawler_runs |-> [r \in DOMAIN db.crawler_runs |->
                          IF r = runId THEN "canceled" ELSE db.crawler_runs[r]]]

\* cancelRemainingItems(db, runId, reason): db.tx with the UPDATE of the
\* run's pending and processing rows and the UPDATE of the run's row.
CancelRemainingItemsTx(db, runId, reason) ==
    [crawler_queue |->
        [i \in 1 .. Len(db.crawler_queue) |->
            LET row == db.crawler_queue[i]
            IN IF row.run_id = runId /\ row.status \in {"pending", "processing"}
               THEN [row EXCEPT !.status = "canceled", !.error = reason]
               ELSE row],
     crawler_runs |-> [r \in DOMAIN db.crawler_runs |->
                          IF r = runId THEN "canceled" ELSE db.crawler_runs[r]]]

\* cancelRemainingItems called on a run of any database above, with the
\* reason of the finally block or of the page limit.
CallCancelRemainingItems ==
    /\ call = NoCall
    /\ \E db \in Databases, runId \in RunIds,
          reason \in {"Crawler process ended", "Reached maximum pages limit"} :
          call' = [fn |-> "cancelRemainingItems", db |-> db, runId |-> runId,
                   reason |-> reason,
                   committed |-> CancelRemainingItemsTx(db, runId, reason)]
    /\ UNCHANGED crawler

NextDb ==
    \/ CallCancelRemainingItems
    \/ ReturnCall

SpecDb == InitUrl /\ [][NextDb]_vars

\* ---------------------------------------------------------- CrawlerQueue
\* A CrawlerQueue object on its own, with clients that submit up to MaxTasks
\* tasks through add and a client that calls stop.  The object is held in
\* call: limit is the pLimit(concurrency) instance (functions running and
\* functions waiting, first in first out), activePromises and stopped are the
\* fields of the class, task the state of each task and of the add call that
\* submitted it, stop the state of the stop call with the promises its
\* Promise.all awaits.
Tasks == 1 .. MaxTasks

Unsettled == {"queued", "running"}

\* get pending()
Pending(q) == Cardinality(q.activePromises)

\* new CrawlerQueue(concurrency)
NewCrawlerQueue ==
    /\ call = NoCall
    /\ \E c \in 1 .. MaxConcurrency :
          call' = [fn |-> "CrawlerQueue", concurrency |-> c,
                   limit |-> [activeCount |-> 0, queue |-> <<>>],
                   activePromises |-> {}, stopped |-> FALSE,
                   task |-> [t \in Tasks |-> "notAdded"],
                   stop |-> [state |-> "notCalled", waitFor |-> {}]]
    /\ UNCHANGED crawler

\* add(task): a stopped queue returns at once and the task is never run;
\* otherwise the wrapped task is handed to the limit, its promise is put
\* into activePromises and the call awaits it.
Add(t) ==
    /\ call # NoCall /\ call.fn = "CrawlerQueue"
    /\ call.task[t] = "notAdded"
    /\ IF call.stopped
       THEN call' = [call EXCEPT !.task[t] = "dropped"]
       ELSE call' = [call EXCEPT !.task[t] = "queued",
                                 !.limit.queue = Append(@, t),
                                 !.activePromises = @ \cup {t}]
    /\ UNCHANGED crawler

\* The limit starts the function at the head of its queue while fewer than
\* concurrency functions are running.
LimitStart ==
    /\ call # NoCall /\ call.fn = "CrawlerQueue"
    /\ call.limit.queue # <<>>
    /\ call.limit.activeCount < call.concurrency
    /\ call' = [call EXCEPT !.task[Head(call.limit.queue)] = "running",
                            !.limit.queue = Tail(@),
                            !.limit.activeCount = @ + 1]
    /\ UNCHANGED crawler

\* What a settled promise does to a stop call that awaits
\* Promise.all(Array.from(this.activePromises)): the first rejection rejects
\* it, the last fulfilment resolves it.
StopAfter(stop, t, outcome) ==
    IF stop.state # "waiting" \/ t \notin stop.waitFor THEN stop
    ELSE IF outcome = "rejected" THEN [state |-> "rejected", waitFor |-> {}]
    ELSE [state |-> IF stop.waitFor = {t} THEN "resolved" ELSE "waiting",
          waitFor |-> stop.waitFor \ {t}]

\* Mutant of TaskSettles: the promise is deleted from activePromises after
\* the await, not in a finally block, so a rejected promise stays.
TaskSettlesDeleteOnSuccess(t, outcome) ==
    /\ call # NoCall /\ call.fn = "CrawlerQueue"
    /\ call.task[t] = "running"
    /\ LET waiting == call.limit.queue
       IN call' = [call EXCEPT
             !.task = IF waiting = <<>>
                      THEN [@ EXCEPT ![t] = outcome]
                      ELSE [@ EXCEPT ![t] = outcome, ![Head(waiting)] = "running"],
             !.limit = IF waiting = <<>>
                       THEN [@ EXCEPT !.activeCount = @ - 1]
                       ELSE [@ EXCEPT !.queue = Tail(@)],
             !.activePromises = IF outcome = "rejected" THEN @ ELSE @ \ {t},
             !.stop = StopAfter(@, t, outcome)]
    /\ UNCHANGED crawler

\* A running task fulfils or rejects: the limit counts it out and starts
\* the next waiting function, add's finally block deletes the promise from
\* activePromises and the add call settles like the task, and a stop call
\* awaiting the promise goes on.
TaskSettles(t, outcome) ==
    /\ call # NoCall /\ call.fn = "CrawlerQueue"
    /\ call.task[t] = "running"
    /\ LET waiting == call.limit.queue
       IN call' = [call EXCEPT
             !.task = IF waiting = <<>>
                      THEN [@ EXCEPT ![t] = outcome]
                      ELSE [@ EXCEPT ![t] = outcome, ![Head(waiting)] = "running"],
             !.limit = IF waiting = <<>>
                       THEN [@ EXCEPT !.activeCount = @ - 1]
                       ELSE [@ EXCEPT !.queue = Tail(@)],
             !.activePromises = @ \ {t},
             !.stop = StopAfter(@, t, outcome)]
    /\ UNCHANGED crawler

\* stop(): this.stopped = true; await Promise.all(Array.from(activePromises))
Stop ==
    /\ call # NoCall /\ call.fn = "CrawlerQueue"
    /\ call.stop.state = "notCalled"
    /\ call' = [call EXCEPT
          !.stopped = TRUE,
          !.stop = [state |-> IF call.activePromises = {}
                              THEN "resolved" ELSE "waiting",
                    waitFor |-> call.activePromises]]
    /\ UNCHANGED crawler

NextQueue ==
    \/ NewCrawlerQueue
    \/ \E t \in Tasks : Add(t)
    \/ LimitStart
    \/ \E t \in Tasks, outcome \in {"fulfilled", "rejected"} : TaskSettles(t, outcome)
    \/ Stop

SpecQueue == InitUrl /\ [][NextQueue]_vars


\* ============================================================ reduced html
\* A text is a sequence of characters, one element each, so that Len is the
\* length of the string.
Letters == {"a", "b", "m", "p"}

\* The character U+2026 (horizontal ellipsis).
Ellipsis == "U+2026"

Digit == <<"0", "1", "2", "3", "4", "5", "6", "7", "8", "9">>

\* String(n) for a number n >= 0.
RECURSIVE NumberToString(_)
NumberToString(n) ==
    IF n < 10 THEN <<Digit[n + 1]>>
    ELSE NumberToString(n \div 10) \o <<Digit[(n % 10) + 1]>>

\* text.substring(0, end)
Substring0(text, end) ==
    SubSeq(text, 1, IF end < Len(text) THEN end ELSE Len(text))

\* ' chars more]'
CharsMore == <<" ", "c", "h", "a", "r", "s", " ", "m", "o", "r", "e", "]">>

trimText(text) ==
    IF Len(text) > maxLength
    THEN Substring0(text, maxLength)
            \o <<Ellipsis, " ", "[">> \o NumberToString(Len(text) - maxLength)
            \o CharsMore
    ELSE text

TextNode(data) == [type |-> "text", data |-> data]

\* The text collected so far becomes a text node, if there is any.
Flush(text) == IF text = <<>> THEN <<>> ELSE <<TextNode(text)>>

\* The first index from i on of a character of the set, Len(s) + 1 if there
\* is none.
IndexOfAny(s, i, set) ==
    LET hits == {j \in i .. Len(s) : s[j] \in set}
    IN  IF hits = {} THEN Len(s) + 1
        ELSE CHOOSE j \in hits : \A k \in hits : j <= k

\* A string handed to a dom manipulation method is markup: it is parsed as
\* an html fragment. "<" before a letter opens a tag that runs to the next
\* ">" (none: the rest of the input is dropped), the element stays open to
\* the end of the input; "&amp" with or without ";" is the character "&";
\* every other character is text.
RECURSIVE ParseFragment(_, _, _)
ParseFragment(s, i, text) ==
    LET j == IndexOfAny(s, i, {"<", "&"})
        seen == text \o SubSeq(s, i, j - 1)
    IN  IF j > Len(s) THEN Flush(seen)
        ELSE IF s[j] = "<" /\ j < Len(s) /\ s[j + 1] \in Letters
        THEN LET close == IndexOfAny(s, j + 1, {">"})
             IN  IF close > Len(s) THEN Flush(seen)
                 ELSE Flush(seen) \o
                      << [type |-> "tag",
                          name |-> SubSeq(s, j + 1, close - 1),
                          children |-> ParseFragment(s, close + 1, <<>>)] >>
        ELSE IF s[j] = "&" /\ j + 3 <= Len(s)
                           /\ SubSeq(s, j + 1, j + 3) = <<"a", "m", "p">>
        THEN ParseFragment(s,
                           IF j + 4 <= Len(s) /\ s[j + 4] = ";" THEN j + 5
                           ELSE j + 4,
                           Append(seen, "&"))
        ELSE ParseFragment(s, j + 1, Append(seen, s[j]))

\* $(node).replaceWith(content) with a string: the nodes that take the place
\* of the node.
replaceWith(content) == ParseFragment(content, 1, <<>>)

\* n plain characters.
Fill(n) == [i \in 1 .. n |-> "a"]

\* What a text node starts with: nothing special, a blank, or characters
\* that came out of character references of the page (&lt;b&gt;, &lt; and
\* &amp;amp;).
Heads ==
    { <<>>, <<" ">>, <<"<", "b", ">">>, <<"<", " ">>,
      <<"&", "a", "m", "p", ";">> }

Texts == { head \o Fill(n) : head \in Heads, n \in 1 .. MaxFill }

\* The text node stage of processHtml, on one text node.
CallTrimTextNode ==
    /\ call = NoCall
    /\ \E text \in Texts :
          call' = [fn |-> "trimTextNode", text |-> text,
                   nodes |-> replaceWith(trimText(text))]
    /\ UNCHANGED crawler

\* ------------------------------------------------------ structural outline
\* const prioritizedAttrs = ['class', 'src', 'data-']
prioritizedAttrs == <<"class", "src", "data-">>

\* array.indexOf(x): the position counted from 0, -1 if x is no element.
indexOf(array, x) ==
    IF \E i \in 1 .. Len(array) : array[i] = x
    THEN (CHOOSE i \in 1 .. Len(array) :
             array[i] = x /\ \A j \in 1 .. (i - 1) : array[j] # x) - 1
    ELSE 0 - 1

\* (a, b) => prioritizedAttrs.indexOf(b) - prioritizedAttrs.indexOf(a)
compareAttrs(a, b) == indexOf(prioritizedAttrs, b) - indexOf(prioritizedAttrs, a)

\* array.sort(compare) is stable: the elements are taken in their order and
\* each is put before the first one that the comparison puts after it.
RECURSIVE SortAttrs(_)
SortAttrs(array) ==
    IF array = <<>> THEN <<>>
    ELSE LET n == Len(array)
             sorted == SortAttrs(SubSeq(array, 1, n - 1))
             x == array[n]
             later == {i \in 1 .. Len(sorted) : compareAttrs(x, sorted[i]) < 0}
             at == IF later = {} THEN Len(sorted) + 1
                   ELSE CHOOSE i \in later : \A j \in later : i <= j
         IN  SubSeq(sorted, 1, at - 1) \o <<x>> \o SubSeq(sorted, at, Len(sorted))

\* The attribute names that traverse writes for an element whose attributes
\* are attrKeys, in the order written.
EmmetAttrs(attrKeys) ==
    LET sorted == SortAttrs(attrKeys)
    IN  SubSeq(sorted, 1,
               IF Len(sorted) < MaxShownAttrs THEN Len(sorted) ELSE MaxShownAttrs)

AttrNames == {"class", "src", "data-", "data-x", "id", "title"}

\* The attributes of an element: distinct names in the order of the page.
AttrLists ==
    UNION { {keys \in [1 .. n -> AttrNames] :
                \A i, j \in 1 .. n : i # j => keys[i] # keys[j]} :
            n \in 0 .. MaxAttrs }

\* traverse of generateEmmetCssRepresentation on one element, its attributes.
CallEmmetAttrs ==
    /\ call = NoCall
    /\ \E attrKeys \in AttrLists :
          call' = [fn |-> "emmetAttrs", attrKeys |-> attrKeys,
                   shown |-> EmmetAttrs(attrKeys)]
    /\ UNCHANGED crawler

\* --------------------------------------------------------- whitespace stage
\* The characters that \s matches, of those in the inputs.
Whitespace == {" ", "\n"}

\* text.replace(/\s{2,}/g, ' ') from index i on: every longest run of two or
\* more whitespace characters becomes one blank.
RECURSIVE ReplaceWhitespaceRuns(_, _)
ReplaceWhitespaceRuns(text, i) ==
    LET runs == {j \in i .. (Len(text) - 1) :
                    text[j] \in Whitespace /\ text[j + 1] \in Whitespace}
    IN  IF runs = {} THEN SubSeq(text, i, Len(text))
        ELSE LET start == CHOOSE j \in runs : \A k \in runs : j <= k
                 rest == {j \in start .. Len(text) : text[j] \notin Whitespace}
                 end == IF rest = {} THEN Len(text) + 1
                        ELSE CHOOSE j \in rest : \A k \in rest : j <= k
             IN  SubSeq(text, i, start - 1) \o <<" ">>
                    \o ReplaceWhitespaceRuns(text, end)

\* text.replace(/\\s{2,}/g, ' ') from index i on: in this expression \\ is a
\* backslash and s{2,} two or more letters s, so every backslash followed by
\* two or more s becomes one blank.
RECURSIVE ReplaceBackslashRuns(_, _)
ReplaceBackslashRuns(text, i) ==
    LET runs == {j \in i .. (Len(text) - 2) :
                    text[j] = "\\" /\ text[j + 1] = "s" /\ text[j + 2] = "s"}
    IN  IF runs = {} THEN SubSeq(text, i, Len(text))
        ELSE LET start == CHOOSE j \in runs : \A k \in runs : j <= k
                 rest == {j \in (start + 1) .. Len(text) : text[j] # "s"}
                 end == IF rest = {} THEN Len(text) + 1
                        ELSE CHOOSE j \in rest : \A k \in rest : j <= k
             IN  SubSeq(text, i, start - 1) \o <<" ">>
                    \o ReplaceBackslashRuns(text, end)

\* text.trim()
Trim(text) ==
    LET solid == {j \in 1 .. Len(text) : text[j] \notin Whitespace}
    IN  IF solid = {} THEN <<>>
        ELSE SubSeq(text,
                    CHOOSE j \in solid : \A k \in solid : j <= k,
                    CHOOSE j \in solid : \A k \in solid : j >= k)

\* trimWhitespace of the reduce pipeline on one text node: the nodes that
\* take its place.
trimWhitespace(text) == replaceWith(ReplaceWhitespaceRuns(text, 1))

\* trimWhitespace of the cleanup operation on one text node.
cleanupTrimWhitespace(text) == replaceWith(Trim(ReplaceBackslashRuns(text, 1)))

WsTexts ==
    UNION { [1 .. n -> {"a", "s", "\\", " ", "\n"}] : n \in 1 .. MaxWsLen }

CallTrimWhitespace ==
    /\ call = NoCall
    /\ \E text \in WsTexts :
          call' = [fn |-> "trimWhitespace", text |-> text,
                   nodes |-> trimWhitespace(text)]
    /\ UNCHANGED crawler

CallCleanupTrimWhitespace ==
    /\ call = NoCall
    /\ \E text \in WsTexts :
          call' = [fn |-> "cleanupTrimWhitespace", text |-> text,
                   nodes |-> cleanupTrimWhitespace(text)]
    /\ UNCHANGED crawler

\* ------------------------------------------------------------ html strings
\* An html string is a sequence of characters, as a text is.
\* The first index from i on at which pat occurs in s, Len(s) + 1 if it does
\* not occur.
IndexOfSub(s, pat, i) ==
    LET hits == {j \in i .. (Len(s) - Len(pat) + 1) :
                    SubSeq(s, j, j + Len(pat) - 1) = pat}
    IN  IF hits = {} THEN Len(s) + 1
        ELSE CHOOSE j \in hits : \A k \in hits : j <= k

\* What the serializer writes for a character of a text node.
TextEntity(c) ==
    CASE c = "&" -> <<"&", "a", "m", "p", ";">>
      [] c = "<" -> <<"&", "l", "t", ";">>
      [] c = ">" -> <<"&", "g", "t", ";">>
      [] OTHER -> <<c>>

\* What the serializer writes for a character of an attribute value.
AttrEntity(c) ==
    CASE c = "&" -> <<"&", "a", "m", "p", ";">>
      [] c = "\"" -> <<"&", "q", "u", "o", "t", ";">>
      [] OTHER -> <<c>>

RECURSIVE EscapeText(_, _)
EscapeText(text, i) ==
    LET j == IndexOfAny(text, i, {"&", "<", ">"})
    IN  IF j > Len(text) THEN SubSeq(text, i, Len(text))
        ELSE SubSeq(text, i, j - 1) \o TextEntity(text[j]) \o EscapeText(text, j + 1)

RECURSIVE EscapeAttr(_, _)
EscapeAttr(value, i) ==
    LET j == IndexOfAny(value, i, {"&", "\""})
    IN  IF j > Len(value) THEN SubSeq(value, i, Len(value))
        ELSE SubSeq(value, i, j - 1) \o AttrEntity(value[j]) \o EscapeAttr(value, j + 1)

\* The parser's reading of an attribute value: &amp; and &quot; are the
\* characters they name.
RECURSIVE DecodeAttr(_, _)
DecodeAttr(s, i) ==
    LET j == IndexOfAny(s, i, {"&"})
    IN  IF j > Len(s) THEN SubSeq(s, i, Len(s))
        ELSE IF SubSeq(s, j, j + 4) = <<"&", "a", "m", "p", ";">>
        THEN SubSeq(s, i, j - 1) \o <<"&">> \o DecodeAttr(s, j + 5)
        ELSE IF SubSeq(s, j, j + 5) = <<"&", "q", "u", "o", "t", ";">>
        THEN SubSeq(s, i, j - 1) \o <<"\"">> \o DecodeAttr(s, j + 6)
        ELSE SubSeq(s, i, j) \o DecodeAttr(s, j + 1)

\* The nodes of a list written one after the other: a text node as its
\* escaped text, an element as its tag, its children and its end tag.
RECURSIVE SerializeNodes(_)
SerializeNodes(nodes) ==
    IF nodes = <<>> THEN <<>>
    ELSE LET node == Head(nodes)
         IN  (IF node.type = "text" THEN EscapeText(node.data, 1)
              ELSE <<"<">> \o node.name \o <<">">>
                      \o SerializeNodes(node.children)
                      \o <<"<", "/">> \o node.name \o <<">">>)
             \o SerializeNodes(Tail(nodes))

\* The pages of the inputs have one shape: body holds a comment, a link
\* without content that has a href and a class, and after it text. A document
\* is the record of these parts; nodes are the nodes after the link.
HtmlOpen == <<"<", "h", "t", "m", "l", ">", "<", "h", "e", "a", "d", ">", "<", "/", "h", "e", "a", "d", ">", "<", "b", "o", "d", "y", ">">>

HtmlClose == <<"<", "/", "b", "o", "d", "y", ">", "<", "/", "h", "t", "m", "l", ">">>

CommentOpen == <<"<", "!", "-", "-">>

CommentClose == <<"-", "-", ">">>

LinkOpen == <<"<", "a", " ", "h", "r", "e", "f", "=", "\"">>

LinkClass == <<"\"", " ", "c", "l", "a", "s", "s", "=", "\"">>

LinkClose == <<"\"", ">", "<", "/", "a", ">">>

\* $('body').html()
BodyHtml(doc) ==
    CommentOpen \o doc.comment \o CommentClose
       \o LinkOpen \o EscapeAttr(doc.href, 1)
       \o LinkClass \o EscapeAttr(doc.class, 1) \o LinkClose
       \o SerializeNodes(doc.nodes)

\* $.html()
Html(doc) == HtmlOpen \o BodyHtml(doc) \o HtmlClose

\* cheerio.load(html) for the html of a page of this shape.
Load(html) ==
    LET c0 == Len(HtmlOpen) + Len(CommentOpen) + 1
        c1 == IndexOfSub(html, CommentClose, c0)
        h0 == c1 + Len(CommentClose) + Len(LinkOpen)
        h1 == IndexOfAny(html, h0, {"\""})
        k0 == h1 + Len(LinkClass)
        k1 == IndexOfAny(html, k0, {"\""})
        t0 == k1 + Len(LinkClose)
        t1 == Len(html) - Len(HtmlClose)
    IN  [comment |-> SubSeq(html, c0, c1 - 1),
         href |-> DecodeAttr(SubSeq(html, h0, h1 - 1), 1),
         class |-> DecodeAttr(SubSeq(html, k0, k1 - 1), 1),
         nodes |-> ParseFragment(SubSeq(html, t0, t1), 1, <<>>)]

\* --------------------------------------------------------- cleanup operation
\* trimText of the cleanup operation.
cleanupTrimText(text, max) ==
    IF max = 0 \/ Len(text) <= max THEN text
    ELSE Substring0(text, max) \o <<Ellipsis>>

\* trimUrl of the cleanup operation.
cleanupTrimUrl(url, max) ==
    IF max = 0 \/ Len(url) <= max THEN url
    ELSE Substring0(url, max) \o <<Ellipsis>>

\* What a stage that visits the text nodes puts in the place of a text node.
TextStage(stage, text) ==
    CASE stage.name = "trimWhitespace" -> trimWhitespace(text)
      [] stage.name = "trimText" -> replaceWith(trimText(text))
      [] stage.name = "cleanupTrimWhitespace" -> cleanupTrimWhitespace(text)
      [] stage.name = "cleanupTrimText" ->
            replaceWith(cleanupTrimText(text, stage.max))

\* $('*').contents().filter(text).each(...): nodes with every text node
\* replaced by what the stage makes of it; the nodes that come out of the
\* replacement are not visited again.
RECURSIVE EachTextNode(_, _)
EachTextNode(nodes, stage) ==
    IF nodes = <<>> THEN <<>>
    ELSE LET node == Head(nodes)
         IN  (IF node.type = "text" THEN TextStage(stage, node.data)
              ELSE << [node EXCEPT !.children = EachTextNode(node.children, stage)] >>)
             \o EachTextNode(Tail(nodes), stage)

\* trimHtmlComments, the same in both files.
trimHtmlComments(comment) ==
    IF Len(comment) > MaxCommentLength
    THEN Substring0(comment, MaxCommentLength) \o <<Ellipsis>>
    ELSE comment

\* The document of executeCleanupHtml before it is written, for a page of the
\* shape above (no style, script, inline handler or omitted attribute to
\* remove).
CleanupDom(html, maxTextLength, maxUrlLength) ==
    LET loaded == Load(html)
        spaced == [loaded EXCEPT
                     !.nodes = EachTextNode(@, [name |-> "cleanupTrimWhitespace"])]
        urls == IF maxUrlLength > 0
                THEN [spaced EXCEPT !.href = cleanupTrimUrl(@, maxUrlLength)]
                ELSE spaced
        texts == IF maxTextLength > 0
                 THEN [urls EXCEPT
                         !.nodes = EachTextNode(@, [name |-> "cleanupTrimText",
                                                    max |-> maxTextLength])]
                 ELSE urls
    IN  [texts EXCEPT !.comment = trimHtmlComments(@)]

\* The html that executeCleanupHtml returns.
executeCleanupHtml(html, maxTextLength, maxUrlLength, onlyBody, maxOutputLength) ==
    LET dom == CleanupDom(html, maxTextLength, maxUrlLength)
        processedHtml == IF onlyBody THEN BodyHtml(dom) ELSE Html(dom)
    IN  IF maxOutputLength > 0 /\ Len(processedHtml) > maxOutputLength
        THEN Substring0(processedHtml, maxOutputLength) \o <<Ellipsis>>
        ELSE processedHtml

\* The text nodes of a list of nodes and of their descendants.
RECURSIVE TextNodes(_)
TextNodes(nodes) ==
    IF nodes = <<>> THEN <<>>
    ELSE (IF Head(nodes).type = "text" THEN <<Head(nodes).data>>
          ELSE TextNodes(Head(nodes).children))
         \o TextNodes(Tail(nodes))

CleanupTexts ==
    UNION { [1 .. n -> {"a", " ", "&"}] : n \in 1 .. MaxCleanLen }

\* Pages for the cleanup operation: short parts and any short text.
CleanupPages ==
    { Html([comment |-> <<"a">>, href |-> href, class |-> <<"a">>,
            nodes |-> <<TextNode(text)>>]) :
         href \in {<<"a">>, <<"a", "&", "a">>}, text \in CleanupTexts }

CallExecuteCleanupHtml ==
    /\ call = NoCall
    /\ \E html \in CleanupPages, onlyBody \in BOOLEAN,
          maxTextLength \in 0 .. MaxLimit, maxUrlLength \in 0 .. MaxLimit,
          maxOutputLength \in {0, MaxLimit, PageLimit} :
          call' = [fn |-> "executeCleanupHtml", html |-> html,
                   maxTextLength |-> maxTextLength,
                   maxUrlLength |-> maxUrlLength,
                   onlyBody |-> onlyBody,
                   maxOutputLength |-> maxOutputLength,
                   texts |-> TextNodes(CleanupDom(html, maxTextLength,
                                                  maxUrlLength).nodes),
                   result |-> executeCleanupHtml(html, maxTextLength,
                                                 maxUrlLength, onlyBody,
                                                 maxOutputLength)]
    /\ UNCHANGED crawler

\* ---------------------------------------------------------- reduce pipeline
\* trimUrl of the reduce pipeline.
trimUrl(url, max) ==
    IF Len(url) > max THEN Substring0(url, max) \o <<Ellipsis>> ELSE url

\* The document of processHtml before it is written, for a page of the shape
\* above and no selector (no style, script, svg, inline handler or omitted
\* attribute to remove).
ReduceDom(html) ==
    LET loaded == Load(html)
        spaced == [loaded EXCEPT
                     !.nodes = EachTextNode(@, [name |-> "trimWhitespace"])]
        hrefs == IF spaced.href # <<>> /\ Len(spaced.href) > MaxHrefLength
                 THEN [spaced EXCEPT
                         !.href = Substring0(@, MaxHrefLength) \o <<Ellipsis>>]
                 ELSE spaced
        comments == [hrefs EXCEPT !.comment = trimHtmlComments(@)]
        attrs == [comments EXCEPT
                    !.href = trimUrl(@, OtherAttrLength),
                    !.class = trimUrl(@, ImportantAttrLength)]
    IN  [attrs EXCEPT !.nodes = EachTextNode(@, [name |-> "trimText"])]

\* The html that processHtml returns.
processHtml(html) == Html(ReduceDom(html))

\* Pages for the reduce pipeline: one part of any length around its limit,
\* the other parts short.
PagePart(comment, href, class, text) ==
    Html([comment |-> comment, href |-> href, class |-> class,
          nodes |-> <<TextNode(text)>>])

ReducePages ==
    { PagePart(<<"a">>, <<"a">>, <<"a">>, head \o Fill(n)) :
         head \in {<<>>, <<" ", " ">>, <<"&">>},
         n \in (1 .. MaxFill) \cup {2 * maxLength} }
    \cup { PagePart(Fill(n), <<"a">>, <<"a">>, <<"a">>) :
              n \in 1 .. (MaxCommentLength + 2) }
    \cup { PagePart(<<"a">>, Fill(n), <<"a">>, <<"a">>) :
              n \in 1 .. (MaxHrefLength + 2) }
    \cup { PagePart(<<"a">>, <<"a">>, Fill(n), <<"a">>) :
              n \in 1 .. (ImportantAttrLength + 2) }

\* processHtml on a page, and again on the html it returned.
CallProcessHtml ==
    /\ call = NoCall
    /\ \E html \in ReducePages :
          LET once == processHtml(html)
          IN  call' = [fn |-> "processHtml", html |-> html, once |-> once,
                       twice |-> processHtml(once)]
    /\ UNCHANGED crawler

\* ------------------------------------------------------------ selector step
\* The elements of a page are numbered; Body is the body element. A dom
\* gives for every element the sequence of its children. An element that is
\* no child of any element is detached.
Body == 0

NoParent == 0 - 1

Range(seq) == {seq[i] : i \in 1 .. Len(seq)}

ParentOf(dom, el) ==
    IF \E p \in DOMAIN dom : el \in Range(dom[p])
    THEN CHOOSE p \in DOMAIN dom : el \in Range(dom[p])
    ELSE NoParent

\* The dom without the elements of the set as children of any element.
Detach(dom, els) ==
    [p \in DOMAIN dom |-> SelectSeq(dom[p], LAMBDA x : x \notin els)]

\* The elements below el, in document order, el first.
RECURSIVE DocumentOrder(_, _)
RECURSIVE DocumentOrderAll(_, _)
DocumentOrder(dom, el) == <<el>> \o DocumentOrderAll(dom, dom[el])

DocumentOrderAll(dom, els) ==
    IF els = <<>> THEN <<>>
    ELSE DocumentOrder(dom, Head(els)) \o DocumentOrderAll(dom, Tail(els))

\* $(selector): the elements that the selector matches, in document order.
Select(dom, matching) ==
    SelectSeq(Tail(DocumentOrder(dom, Body)), LAMBDA x : x \in matching)

\* $(this).siblings().remove(); $('body').empty().append(this);
OnlyThis(dom, this) ==
    LET parent == ParentOf(dom, this)
        siblings == IF parent = NoParent THEN {}
                    ELSE Range(dom[parent]) \ {this}
        removed == Detach(dom, siblings)
        emptied == [removed EXCEPT ![Body] = <<>>]
    IN  [Detach(emptied, {this}) EXCEPT ![Body] = <<this>>]

\* selectedElements.each(...)
RECURSIVE EachSelected(_, _)
EachSelected(dom, selectedElements) ==
    IF selectedElements = <<>> THEN dom
    ELSE EachSelected(OnlyThis(dom, Head(selectedElements)),
                      Tail(selectedElements))

\* The pages: every tree of 1 .. MaxElems elements under body (an element's
\* parent has a smaller number, children stand in the order of the numbers).
Doms ==
    UNION { { [p \in 0 .. n |-> SelectSeq([i \in 1 .. n |-> i],
                                          LAMBDA x : parent[x] = p)] :
                parent \in {f \in [1 .. n -> 0 .. (n - 1)] :
                               \A i \in 1 .. n : f[i] < i} } :
            n \in 1 .. MaxElems }

\* The selector step of processHtml with a selector that matches the
\* elements of matching.
CallSelectorStep ==
    /\ call = NoCall
    /\ \E dom \in Doms :
          \E matching \in SUBSET (DOMAIN dom \ {Body}) :
             LET selectedElements == Select(dom, matching)
             IN  call' = [fn |-> "selectorStep", dom |-> dom,
                          selectedElements |-> selectedElements,
                          thrown |-> (Len(selectedElements) = 0),
                          result |-> EachSelected(dom, selectedElements)]
    /\ UNCHANGED crawler

\* $('style, script').remove(), the first stage of the pipeline, on a page
\* whose style and script elements are the elements of the set.
RemoveStyleAndScript(dom, styleOrScript) == Detach(dom, styleOrScript)

NoSelector == ""
NoResult == [html |-> "none"]

\* Mutant of SelectorAndFirstStage: style and script elements are removed
\* before the selector is looked at.
SelectorAfterFirstStage(dom, selector, matching, styleOrScript) ==
    LET cleaned == RemoveStyleAndScript(dom, styleOrScript)
        selectedElements == Select(cleaned, matching)
    IN IF selector # NoSelector /\ Len(selectedElements) = 0
       THEN [thrown |-> TRUE, error |-> "Selector not found",
             document |-> cleaned, result |-> NoResult]
       ELSE LET reduced == IF selector # NoSelector
                           THEN EachSelected(cleaned, selectedElements)
                           ELSE cleaned
            IN [thrown |-> FALSE, error |-> NoError, document |-> reduced,
                result |-> [html |-> reduced]]

\* processHtml(htmlContent, selector) from cheerio.load to the end of its
\* first stage: analyzeDOM reads the document; with a selector, no selected
\* element is an Error('Selector not found'), otherwise the document is
\* reduced to the selected elements; then style and script elements are
\* removed.  document is what $ holds when the function is left there,
\* result what the caller gets.
SelectorAndFirstStage(dom, selector, matching, styleOrScript) ==
    LET selectedElements == Select(dom, matching)
    IN IF selector # NoSelector /\ Len(selectedElements) = 0
       THEN [thrown |-> TRUE, error |-> "Selector not found",
             document |-> dom, result |-> NoResult]
       ELSE LET reduced == IF selector # NoSelector
                           THEN EachSelected(dom, selectedElements)
                           ELSE dom
                cleaned == RemoveStyleAndScript(reduced, styleOrScript)
            IN [thrown |-> FALSE, error |-> NoError, document |-> cleaned,
                result |-> [html |-> cleaned]]

\* processHtml called without a selector or with the selector ".x", on a
\* page with at most one style or script element; matching are the elements
\* of class x.
CallProcessHtmlSelector ==
    /\ call = NoCall
    /\ \E dom \in Doms, selector \in {NoSelector, ".x"} :
          \E matching \in SUBSET (DOMAIN dom \ {Body}),
             styleOrScript \in {{}} \cup {{el} : el \in DOMAIN dom \ {Body}} :
             call' = [fn |-> "processHtmlSelector", dom |-> dom,
                      selector |-> selector, matching |-> matching,
                      styleOrScript |-> styleOrScript,
                      outcome |-> SelectorAndFirstStage(dom, selector, matching,
                                                        styleOrScript)]
    /\ UNCHANGED crawler

NextHtml ==
    \/ CallProcessHtmlSelector
    \/ CallSelectorStep
    \/ CallProcessHtml
    \/ CallExecuteCleanupHtml
    \/ CallTrimWhitespace
    \/ CallCleanupTrimWhitespace
    \/ CallEmmetAttrs
    \/ CallTrimTextNode
    \/ ReturnCall

SpecHtml == InitUrl /\ [][NextHtml]_vars


\* =================================================================== claims
Ended == main.pc \in {"returned", "thrown"}

InTask == {"checkRun", "fetch", "selectExisting", "insertLinks", "markCompleted",
           "countPage", "cancelMaxPages", "markFailed", "cancelTooMany"}

\* The step in which processor w receives an item from the claim transaction.
ClaimStep(w) == w_pc[w] = "claim" /\ w_pc'[w] = "claimed"

\* C1: claim exclusivity.  Every claim step hands the processor an item that
\* was pending and is processing afterwards; an item becomes processing only
\* through the claim step of exactly one processor; a claim step finds no
\* item exactly when nothing is pending; no item ever returns to pending (so
\* no item is handed out twice); and two processors never hold the same item.
ClaimExclusive ==
    /\ [](\A v, w \in Workers :
            (v # w /\ w_pc[v] \in InTask \cup {"claimed"}
                   /\ w_pc[w] \in InTask \cup {"claimed"}) => w_item[v] # w_item[w])
    /\ [][/\ \A w \in Workers : ClaimStep(w) =>
                /\ w_item'[w] \in Ids
                /\ queue[w_item'[w]].status = "pending"
                /\ queue'[w_item'[w]].status = "processing"
          /\ \A w \in Workers : (w_pc[w] = "claim" /\ w_pc'[w] # "claim") =>
                IF \E i \in Ids : queue[i].status = "pending"
                THEN w_pc'[w] = "claimed" ELSE w_pc'[w] = "noItem"
          /\ \A i \in Ids :
                (queue[i].status # "processing" /\ queue'[i].status = "processing") =>
                   Cardinality({w \in Workers : ClaimStep(w) /\ w_item'[w] = i}) = 1
          /\ \A i \in Ids :
                queue[i].status # "pending" => queue'[i].status # "pending"]_vars

\* C1 witness: two processors ran the claim step against a queue holding
\* only the seed; one received it, the other received nothing.
ClaimExclusiveWitness ==
    \E v, w \in Workers :
        /\ Len(queue) = 1
        /\ w_pc[v] = "claimed" /\ w_item[v] = 1
        /\ w_pc[w] = "noItem" /\ w_item[w] = 0

\* C2 (as claimed): no two queue items of the run have the same url.
NoDuplicateUrls ==
    \A i, j \in Ids : i # j => queue[i].url # queue[j].url

\* C3 (as claimed): an item changes status only pending->processing,
\* processing->completed, processing->failed, pending->canceled or
\* processing->canceled; completed, failed and canceled are final.
ItemTransitionsLegal ==
    [][\A i \in Ids : queue'[i].status # queue[i].status =>
          <<queue[i].status, queue'[i].status>> \in
             {<<"pending", "processing">>, <<"processing", "completed">>,
              <<"processing", "failed">>, <<"pending", "canceled">>,
              <<"processing", "canceled">>}]_vars

\* C4 (as claimed): once the run status is completed, failed or canceled it
\* never changes again.
RunTerminalSticky ==
    [][(run_status \in {"completed", "failed", "canceled"}) =>
          (run_status' = run_status)]_vars

\* C5 (as claimed): the number of completed items never exceeds maxPages.
CompletedWithinMaxPages == CountStatus(queue, "completed") <= maxPages

\* C6 (as claimed): with maxDepth = 1 no page other than the start page is
\* ever fetched.
DepthOneFetchesOnlySeed ==
    maxDepth = 1 =>
       \A w \in Workers : w_pc[w] = "fetch" => queue[w_item[w]].url = StartUrl

\* C7 (as claimed): a run in which more than FailThreshold items failed has
\* ended with run status 'failed'.
TooManyFailedEndsFailed ==
    (Ended /\ CountStatus(queue, "failed") > FailThreshold) => run_status = "failed"

\* C8 (as claimed): after processCrawlerQueue has returned from an exhausted
\* queue (every item completed or failed, none canceled) the run status is
\* 'completed' if at least one item completed and 'failed' if none did.
ExhaustedRunStatus ==
    (main.pc = "returned"
        /\ \A i \in Ids : queue[i].status \in {"completed", "failed"}) =>
       run_status = IF CountStatus(queue, "completed") >= 1
                    THEN "completed" ELSE "failed"

\* C9 (as claimed): a run with maxPages = 1 whose seed fetch succeeds ends
\* with exactly one completed item, every other item canceled, and run
\* status 'completed'.
PageLimitOneOutcome ==
    (maxPages = 1 /\ queue[1].status = "completed" /\ Ended
        /\ \A w \in Workers : w_pc[w] \in {"exited", "rejected", "unused"}) =>
       /\ CountStatus(queue, "completed") = 1
       /\ \A i \in Ids : queue[i].status # "completed" => queue[i].status = "canceled"
       /\ run_status = "completed"

\* C10 (as claimed): once processCrawlerQueue has returned or thrown, no item
\* of the run is pending or processing.
NoOpenItemsAfterExit ==
    Ended => \A i \in Ids : queue[i].status \notin {"pending", "processing"}

\* C11 (as claimed): a processor that has found, on a claimed item, that the
\* run is not 'running' makes no claim step afterwards.
StopSeenNoClaim ==
    [][\A w \in Workers : w \in w_sawStop => ~ClaimStep(w)]_vars

\* C12 (as claimed): if crawler-pause was applied while the run was being
\* processed and had pending items, then once the invocation has exited the
\* run status is 'paused' and those items are still pending.
PauseResumable ==
    (Ended /\ pause.applied) =>
       /\ run_status = "paused"
       /\ pause.pending \subseteq PendingIds(queue)

\* C13 (as claimed): claims are non-decreasing in depth.  An item that is
\* processing, completed or failed was claimed earlier, so a claim step never
\* hands out an item of smaller depth than any such item.
DepthOrderedClaims ==
    [][\A w \in Workers : ClaimStep(w) =>
          \A i \in Ids : queue[i].status \in {"processing", "completed", "failed"} =>
              queue[i].depth <= queue[w_item'[w]].depth]_vars

\* C14: the seed item has depth 0 and no parent_url; every other item has the
\* url of an earlier item as parent_url, is a link of that page and lies one
\* level below it; and every insert step adds only rows whose parent_url is
\* the url of the item being processed and whose depth is that item's depth
\* plus one.
ChildDepthAndParent ==
    /\ [](/\ queue[1].depth = 0
          /\ queue[1].parent_url = NoUrl
          /\ \A i \in Ids \ {1} :
                /\ queue[i].parent_url # NoUrl
                /\ \E j \in 1 .. (i - 1) :
                      /\ queue[j].url = queue[i].parent_url
                      /\ queue[i].depth = queue[j].depth + 1
                      /\ queue[i].url \in Links(queue[j].url))
    /\ [][\A w \in Workers :
            (w_pc[w] = "insertLinks" /\ w_pc'[w] = "markCompleted") =>
               \A i \in (Len(queue) + 1) .. Len(queue') :
                  /\ queue'[i].depth = queue[w_item[w]].depth + 1
                  /\ queue'[i].parent_url = queue[w_item[w]].url]_vars

\* C14 witness: the tree was crawled down to its deepest page, which was
\* inserted at depth 3 below its parent at depth 2.
ChildDepthAndParentWitness ==
    \E i, j \in Ids :
        /\ queue[i].url = TreeStart + 4 /\ queue[i].depth = 3
        /\ queue[i].parent_url = TreeStart + 3
        /\ queue[j].url = TreeStart + 3 /\ queue[j].depth = 2

\* C15 (as claimed): the number of processor loops of a run started by
\* crawler-start equals the concurrency configured for the run.
WorkersAsConfigured ==
    Cardinality({w \in Workers : w_pc[w] # "unused"}) = run_concurrency

\* C16 (as claimed): in the step in which processCrawlerQueue throws, no
\* item is pending or processing, every canceled item carries the thrown
\* error's message or the reason of a cancellation made before the catch
\* block, and the run status is completed, failed or canceled.
ThrowAfterCleanup ==
    [][(main.pc # "thrown" /\ main'.pc = "thrown") =>
          /\ \A i \in 1 .. Len(queue') :
                /\ queue'[i].status \notin {"pending", "processing"}
                /\ queue'[i].status = "canceled" =>
                      queue'[i].error \in {main.error, "Too many failed requests",
                                           "Reached maximum pages limit"}
          /\ run_status' \in {"completed", "failed", "canceled"}]_vars

\* The url of the examined call matches pattern, both without their scheme.
Matches(pattern) == Minimatch(StripScheme(call.url), StripScheme(pattern))

\* C17: shouldProcessUrl returns false whenever the url matches an exclude
\* pattern, and otherwise true exactly when there is no include pattern or
\* the url matches one; matching is on url and pattern without scheme.
ExcludeWins ==
    call.fn = "shouldProcessUrl" =>
       LET excluded == \E i \in 1 .. Len(call.excludePatterns) :
                          Matches(call.excludePatterns[i])
           included == \/ call.includePatterns = <<>>
                       \/ \E i \in 1 .. Len(call.includePatterns) :
                             Matches(call.includePatterns[i])
       IN call.result = (~excluded /\ included)

\* C17 witness: a url that matches an include pattern given with its scheme
\* and an exclude pattern was rejected.
ExcludeWinsWitness ==
    /\ call.fn = "shouldProcessUrl"
    /\ call.url = Https \o <<"a.com", "/", "d", "/", "x", ".pdf">>
    /\ call.includePatterns = << Https \o <<"a.com", "/", "*", "*">> >>
    /\ call.excludePatterns = << <<"*", "*", "/", "*", ".pdf">> >>
    /\ call.result = FALSE

\* C18 (as claimed): with no include pattern and the one exclude pattern
\* **.pdf every url ending in .pdf is rejected, in any folder, and every
\* other url accepted.
PdfExcludedAnywhere ==
    (/\ call.fn = "shouldProcessUrl"
     /\ call.includePatterns = <<>>
     /\ call.excludePatterns = <<PdfAnywhere>>) =>
       call.result = (call.url[Len(call.url)] # ".pdf")

\* C19: normalizeUrl is idempotent, and a string that is no absolute url is
\* returned as it was given.
NormalizeIdempotent ==
    call.fn = "normalizeUrl" =>
       /\ normalizeUrl(call.result) = call.result
       /\ call.url \in MalformedUrls => call.result = call.url

\* C19 witness: an upper-case url with default port, root path and fragment
\* was normalized to a different string.
NormalizeIdempotentWitness ==
    /\ call.fn = "normalizeUrl"
    /\ call.url = <<"HTTP:", "/", "/", "A.COM", ":", "80", "/", "#", "f">>
    /\ call.result = <<"http:", "/", "/", "a.com", "/">>

\* C20 (as claimed): the text node stage replaces a text node longer than
\* 100 characters by one text node holding its first 100 characters and
\* "... [N chars more]" with N the length less 100, and leaves a text node
\* of at most 100 characters as the one text node it was.
TextNodesTrimmed ==
    call.fn = "trimTextNode" =>
       call.nodes =
          << TextNode(IF Len(call.text) > maxLength
                      THEN SubSeq(call.text, 1, maxLength)
                              \o <<Ellipsis, " ", "[">>
                              \o NumberToString(Len(call.text) - maxLength)
                              \o CharsMore
                      ELSE call.text) >>

\* The attributes of keys whose names are in the set, in their order.
Those(keys, names) == SelectSeq(keys, LAMBDA k : k \in names)

\* The names of AttrNames that start with data-.
DataNames == {"data-", "data-x"}

\* C23 (as claimed): the outline shows at most 4 attributes of an element,
\* the first 4 of: class, then src, then the data- attributes, then all other
\* attributes, each group in the order of the page.
OutlineAttrsPreferred ==
    call.fn = "emmetAttrs" =>
       LET keys == call.attrKeys
           preferred == Those(keys, {"class"}) \o Those(keys, {"src"})
                           \o Those(keys, DataNames)
                           \o Those(keys, AttrNames \ ({"class", "src"} \cup DataNames))
       IN  call.shown =
              SubSeq(preferred, 1, IF Len(keys) < 4 THEN Len(keys) ELSE 4)

\* C22 (as claimed): after the whitespace stage, of the reduce pipeline as of
\* the cleanup operation, no text node holds two adjacent whitespace
\* characters.
WhitespaceCollapsed ==
    call.fn \in {"trimWhitespace", "cleanupTrimWhitespace"} =>
       \A k \in 1 .. Len(call.nodes) :
          call.nodes[k].type = "text" =>
             \A i \in 1 .. (Len(call.nodes[k].data) - 1) :
                ~(/\ call.nodes[k].data[i] \in Whitespace
                  /\ call.nodes[k].data[i + 1] \in Whitespace)

\* C25 (as claimed): with maxOutputLength > 0 the html that the cleanup
\* operation returns is at most maxOutputLength long and with 0 it is the
\* whole html; with maxTextLength > 0 no text node of the output is longer
\* than maxTextLength and with 0 the text nodes are not trimmed.
CleanupWithinLimits ==
    call.fn = "executeCleanupHtml" =>
       /\ call.maxOutputLength > 0 => Len(call.result) <= call.maxOutputLength
       /\ call.maxOutputLength = 0 =>
             call.result = executeCleanupHtml(call.html, call.maxTextLength,
                                              call.maxUrlLength, call.onlyBody,
                                              PageLimit * PageLimit)
       /\ call.maxTextLength > 0 =>
             \A k \in 1 .. Len(call.texts) :
                Len(call.texts[k]) <= call.maxTextLength
       /\ call.maxTextLength = 0 =>
             call.texts = TextNodes(CleanupDom(call.html, PageLimit,
                                               call.maxUrlLength).nodes)

\* C21 (as claimed): the html of a second pass of the reduce pipeline is as
\* long as the html of the first pass.
ReduceIdempotentLength ==
    call.fn = "processHtml" => Len(call.twice) = Len(call.once)

\* C24 (as claimed): after the selector step with a selector that matches,
\* body holds exactly the first matching element in document order, with the
\* subtree it had.
SelectorKeepsFirst ==
    (call.fn = "selectorStep" /\ ~call.thrown) =>
       LET first == call.selectedElements[1]
       IN  /\ call.result[Body] = <<first>>
           /\ \A el \in Range(DocumentOrder(call.dom, first)) :
                 call.result[el] = call.dom[el]

\* C26 (as claimed): a processor whose claim found no item stops (sets the
\* flag, marks the run failed or leaves its loop) only when the run has no
\* pending and no processing item.
StopsOnlyWhenNothingOpen ==
    [][\A w \in Workers :
          (w_pc[w] = "noItem" /\ w_pc'[w] \in {"markRunFailed", "exited"}) =>
             /\ CountStatus(queue, "pending") = 0
             /\ CountStatus(queue, "processing") = 0]_vars

\* The step in which processor w issues the fetch for its item.
FetchStep(w) == w_pc[w] = "fetch" /\ w_pc'[w] # "fetch"

\* C27: every item is fetched at most once.  A processor comes to fetch only
\* through the status check of the task it started for the item that its
\* last claim step handed to it, holds that item until the fetch, and shares
\* it with no other processor; a claim step hands out a pending item and
\* makes it processing; no item ever returns to pending, and a failed item
\* stays failed.
FetchedOnce ==
    [][/\ \A w \in Workers :
             /\ (w_pc'[w] = "fetch" /\ w_pc[w] # "fetch") => w_pc[w] = "checkRun"
             /\ (w_pc'[w] = "checkRun" /\ w_pc[w] # "checkRun") => w_pc[w] = "claimed"
             /\ (w_pc'[w] = "claimed" /\ w_pc[w] # "claimed") =>
                   /\ w_pc[w] = "claim"
                   /\ queue[w_item'[w]].status = "pending"
                   /\ queue'[w_item'[w]].status = "processing"
             /\ w_pc[w] \in {"claimed", "checkRun"} /\ w_pc'[w] \in {"checkRun", "fetch"}
                   => w_item'[w] = w_item[w]
             /\ FetchStep(w) =>
                   /\ w_item[w] \in Ids
                   /\ \A v \in Workers \ {w} : w_item[v] # w_item[w]
       /\ \A i \in Ids :
             /\ queue[i].status # "pending" => queue'[i].status # "pending"
             /\ queue[i].status = "failed" => queue'[i].status = "failed"]_vars

\* C27 witness: one item has failed and a processor is fetching another one.
FetchedOnceWitness ==
    /\ \E i \in Ids : queue[i].status = "failed"
    /\ \E w \in Workers : w_pc[w] = "fetch" /\ queue[w_item[w]].status = "processing"

\* The ids that queue rows can have.
ItemIds == 1 .. Cardinality(Urls)

\* Items have failed, not more than the threshold allows, and the run is
\* running.
Tolerated ==
    /\ CountStatus(queue, "failed") \in 1 .. FailThreshold
    /\ run_status = "running"

FetchOnlyWhenRunning ==
    [][\A w \in Workers :
          (w_pc'[w] = "fetch" /\ w_pc[w] # "fetch") =>
             (w_pc[w] = "checkRun" /\ run_status = "running")]_vars

\* C29 witness: a processor found the run not running at the check and ended
\* its task without a fetch.
FetchOnlyWhenRunningWitness ==
    \E w \in w_sawStop : w_pc[w] = "loop" /\ run_status # "running"

\* C30: every queue item of the run has a depth between 0 and the run's
\* maxDepth.
DepthWithinMaxDepth ==
    \A i \in Ids : queue[i].depth >= 0 /\ queue[i].depth <= run_max_depth

\* ------------------------------------------------------------------ links
\* C31: with crawl_external off every item of the run has the hostname of
\* the seed url.
SameHostAsSeed ==
    ~run_crawl_external =>
       \A i \in Ids : /\ URLParse(queue[i].url).ok
                      /\ URLParse(queue[i].url).hostname =
                            URLParse(queue[1].url).hostname

\* C31 witness: with crawl_external off, a page that was redirected to
\* another host and has relative and external links has been through the
\* enqueue transaction.
SameHostAsSeedWitness ==
    /\ ~run_crawl_external
    /\ \E i \in Ids :
          /\ queue[i].status = "completed"
          /\ queue[i].depth < maxDepth
          /\ FinalUrl(queue[i].url) # NoFinalUrl
          /\ URLParse(FinalUrl(queue[i].url)).hostname #
                URLParse(queue[i].url).hostname
          /\ PageHrefs(queue[i].url) # <<>>

\* C32: every url in the queue has scheme http or https.
OnlyHttpUrls ==
    \A i \in Ids : /\ URLParse(queue[i].url).ok
                   /\ URLParse(queue[i].url).protocol \in {"http:", "https:"}

\* C33: the rows a task inserts are the links of its page resolved against
\* the page's final url, or against the url of the request where the
\* fetcher reports no final url.
ResolvedAgainstFinalUrl ==
    [][\A w \in Workers :
          (w_pc[w] = "insertLinks" /\ w_pc'[w] = "markCompleted") =>
             LET item == queue[w_item[w]]
                 baseUrl == IF FinalUrl(item.url) = NoFinalUrl THEN item.url
                            ELSE FinalUrl(item.url)
             IN queue' = queue \o
                   LinkRows(IncludedLinks(PageHrefs(item.url), baseUrl,
                                          item.url, run_include_patterns,
                                          run_exclude_patterns,
                                          run_crawl_external),
                            w_existing[w], item)]_vars

\* C34: every url in the queue is in normalized form, and no later item has
\* the address of the seed.
QueueUrlsNormalized ==
    /\ \A i \in Ids : normalizeUrl(queue[i].url) = queue[i].url
    /\ \A i \in Ids \ {1} :
          normalizeUrl(queue[i].url) # normalizeUrl(queue[1].url)

\* C35: when a selector is supplied and matches no element, processHtml
\* throws, holds the document as it was loaded, and hands no result to its
\* caller.
SelectorNotFoundFails ==
    (/\ call.fn = "processHtmlSelector"
     /\ call.selector # NoSelector
     /\ Select(call.dom, call.matching) = <<>>) =>
        /\ call.outcome.thrown
        /\ call.outcome.error = "Selector not found"
        /\ call.outcome.document = call.dom
        /\ call.outcome.result = NoResult

\* C35 witness: a selector that matches nothing, on a page that has a style
\* or script element.
SelectorNotFoundFailsWitness ==
    /\ call.fn = "processHtmlSelector"
    /\ call.selector # NoSelector
    /\ Select(call.dom, call.matching) = <<>>
    /\ call.styleOrScript # {}
    /\ call.outcome.thrown

CancelChangesOnlyOpenItems ==
    call.fn = "cancelRemainingItems" =>
        LET before == call.db
            after == call.committed
        IN /\ Len(after.crawler_queue) = Len(before.crawler_queue)
           /\ \A i \in 1 .. Len(before.crawler_queue) :
                 LET row == before.crawler_queue[i]
                 IN IF row.run_id = call.runId
                       /\ row.status \in {"pending", "processing"}
                    THEN after.crawler_queue[i] =
                            [run_id |-> row.run_id, status |-> "canceled",
                             error |-> call.reason]
                    ELSE after.crawler_queue[i] = row
           /\ after.crawler_runs[call.runId] = "canceled"
           /\ \A r \in RunIds \ {call.runId} :
                 after.crawler_runs[r] = before.crawler_runs[r]

\* C37 witness: the run had an open item and an item canceled earlier, and
\* another run had an open item.
CancelChangesOnlyOpenItemsWitness ==
    /\ call.fn = "cancelRemainingItems"
    /\ \E i, j, k \in 1 .. Len(call.db.crawler_queue) :
          /\ call.db.crawler_queue[i].run_id = call.runId
          /\ call.db.crawler_queue[i].status = "processing"
          /\ call.db.crawler_queue[j].run_id = call.runId
          /\ call.db.crawler_queue[j].status = "canceled"
          /\ call.db.crawler_queue[k].run_id # call.runId
          /\ call.db.crawler_queue[k].status = "pending"
          /\ call.committed.crawler_queue[i].status = "canceled"

\* ----------------------------------------------------------- CrawlerQueue
\* C38: at most concurrency tasks submitted through add are running,
\* activePromises holds exactly the submitted tasks that have not settled,
\* and pending is 0 once every add call has resolved or rejected.
AtMostConcurrencyRunning ==
    (call # NoCall /\ call.fn = "CrawlerQueue") =>
        /\ Cardinality({t \in Tasks : call.task[t] = "running"}) <= call.concurrency
        /\ call.activePromises = {t \in Tasks : call.task[t] \in Unsettled}
        /\ (\A t \in Tasks : call.task[t] \in {"fulfilled", "rejected", "dropped"})
              => Pending(call) = 0

\* C38 witness: more tasks than concurrency were submitted, one has rejected,
\* concurrency tasks are running and one waits.
AtMostConcurrencyRunningWitness ==
    /\ call # NoCall /\ call.fn = "CrawlerQueue"
    /\ \E t \in Tasks : call.task[t] = "rejected"
    /\ Cardinality({t \in Tasks : call.task[t] = "running"}) = call.concurrency
    /\ \E t \in Tasks : call.task[t] = "queued"

\* C39: once stop has been called add starts no task, and the stop call
\* resolves or rejects only when no task that was active at the call is
\* unsettled.
StopWaitsForActiveTasks ==
    [][(call # NoCall /\ call.fn = "CrawlerQueue" /\ call'.fn = "CrawlerQueue") =>
          /\ \A t \in Tasks :
                (call.stopped /\ call.task[t] = "notAdded") =>
                    call'.task[t] \in {"notAdded", "dropped"}
          /\ (call.stop.state = "waiting" /\ call'.stop.state # "waiting") =>
                \A t \in call.stop.waitFor : call'.task[t] \notin Unsettled]_vars

====
